---- MODULE Spec2Model ----
(***************************************************************************)
(* Model of the deduplication core of keep-track-nz                        *)
(* (backend/src/keep_track_nz/processors/deduplicator.py), of the          *)
(* pipeline that runs it (backend/src/keep_track_nz/main.py) and of the    *)
(* Version Grouper.  Four specifications: Spec (calls of                   *)
(* Deduplicator.process), PipelineSpec (a run of run_complete_pipeline),   *)
(* GrouperSpec (calls of the Version Grouper) and CheckSpec (calls of the  *)
(* two checks, of _dates_are_similar, and of _remove_exact_duplicates,     *)
(* the two selectors on a pair, and of _remove_cross_source_duplicates).   *)
(*                                                                         *)
(* A record (a Python dict) is a TLA+ record with the eight keys the code  *)
(* reads.  Every field value is a string: the text itself, or one of the   *)
(* three markers Absent (the key is not in the dict), None (the value is   *)
(* null) and NonStr (a truthy value that is not a str, e.g. the int        *)
(* 20240110).  The metadata dict is the sequence of its values.            *)
(* Python strings are decoded to sequences of one-character strings by     *)
(* Chars, and lower(), strip(), re.sub, urlparse, strptime and             *)
(* fuzz.ratio are computed on those sequences.                             *)
(***************************************************************************)
EXTENDS Integers, Sequences, FiniteSets, TLC

VARIABLES
    pc,           \* where the current call of process is
    data,         \* the list process was called with
    actions,      \* the local list `actions`: references (indices) into data
    before,       \* the list the stage that ran last was given
    clusters,     \* the groups the stage that ran last collapsed to one each
    result,       \* the list process returned
    debug_stats,  \* self.debug_stats
    step,         \* where run_complete_pipeline of the orchestrator is
    dry_run,      \* self.dry_run of the orchestrator
    run_stats,    \* self.run_stats of the orchestrator
    items,        \* the length of the list the pipeline step that ran last returned
    calls,        \* the calls a run of the pipeline made, each with what it returned
    closed,       \* the scrapers whose close() was called
    returned      \* what run_complete_pipeline returned

\* the deduplicator and a call of its process
dvars == <<pc, data, actions, before, clusters, result, debug_stats>>

\* the orchestrator and a run of its pipeline
ovars == <<step, dry_run, run_stats, items, calls, closed, returned>>

vars == <<dvars, ovars>>

(* ---------------------------------------------------------------------- *)
(* Bounds                                                                  *)
(* ---------------------------------------------------------------------- *)
MaxLen == 3

\* the most items one scraper returns
MaxScraped == 1

(* ---------------------------------------------------------------------- *)
(* Values                                                                  *)
(* ---------------------------------------------------------------------- *)
Absent == "<absent>"
None == "<None>"
NonStr == "<int>"

\* dict.get(key, default)
Get(action, key, default) == IF action[key] = Absent THEN default ELSE action[key]

\* Python truthiness of a field value ("" and None are falsy)
Truthy(v) == v # "" /\ v # None /\ v # Absent

IsStr(v) == v # None /\ v # NonStr /\ v # Absent

\* isinstance(item, dict)
IsDict(item) == "id" \in DOMAIN item

(* ---------------------------------------------------------------------- *)
(* The characters of every string that occurs in a record                  *)
(* ---------------------------------------------------------------------- *)
Chars ==
    "http://water.example/w1" :> <<"h", "t", "t", "p", ":", "/", "/", "w", "a", "t", "e", "r", ".", "e", "x", "a", "m", "p", "l", "e", "/", "w", "1">> @@
    "HTTPS://Water.Example/W1" :> <<"H", "T", "T", "P", "S", ":", "/", "/", "W", "a", "t", "e", "r", ".", "E", "x", "a", "m", "p", "l", "e", "/", "W", "1">> @@
    "https://water.example/w1//" :> <<"h", "t", "t", "p", "s", ":", "/", "/", "w", "a", "t", "e", "r", ".", "e", "x", "a", "m", "p", "l", "e", "/", "w", "1", "/", "/">> @@
    "https://water.example/w1?page=2" :> <<"h", "t", "t", "p", "s", ":", "/", "/", "w", "a", "t", "e", "r", ".", "e", "x", "a", "m", "p", "l", "e", "/", "w", "1", "?", "p", "a", "g", "e", "=", "2">> @@
    "https://water.example/w1#s2" :> <<"h", "t", "t", "p", "s", ":", "/", "/", "w", "a", "t", "e", "r", ".", "e", "x", "a", "m", "p", "l", "e", "/", "w", "1", "#", "s", "2">> @@
    "/" :> <<"/">> @@
    "https://" :> <<"h", "t", "t", "p", "s", ":", "/", "/">> @@
    "   " :> <<" ", " ", " ">> @@
    "2024-1-17" :> <<"2", "0", "2", "4", "-", "1", "-", "1", "7">> @@
    "tomorrow" :> <<"t", "o", "m", "o", "r", "r", "o", "w">> @@
    "Fast-track Approvals Bill" :> <<"F", "a", "s", "t", "-", "t", "r", "a", "c", "k", " ", "A", "p", "p", "r", "o", "v", "a", "l", "s", " ", "B", "i", "l", "l">> @@
    "https://example.com/bill1" :> <<"h", "t", "t", "p", "s", ":", "/", "/", "e", "x", "a", "m", "p", "l", "e", ".", "c", "o", "m", "/", "b", "i", "l", "l", "1">> @@
    "2024-12-05" :> <<"2", "0", "2", "4", "-", "1", "2", "-", "0", "5">> @@
    "Fast-Track Approvals Act 2024" :> <<"F", "a", "s", "t", "-", "T", "r", "a", "c", "k", " ", "A", "p", "p", "r", "o", "v", "a", "l", "s", " ", "A", "c", "t", " ", "2", "0", "2", "4">> @@
    "https://example.com/act1" :> <<"h", "t", "t", "p", "s", ":", "/", "/", "e", "x", "a", "m", "p", "l", "e", ".", "c", "o", "m", "/", "a", "c", "t", "1">> @@
    "2024-12-06" :> <<"2", "0", "2", "4", "-", "1", "2", "-", "0", "6">> @@
    "Budget 2024" :> <<"B", "u", "d", "g", "e", "t", " ", "2", "0", "2", "4">> @@
    "2024-05-30" :> <<"2", "0", "2", "4", "-", "0", "5", "-", "3", "0">> @@
    "Water Service Act" :> <<"W", "a", "t", "e", "r", " ", "S", "e", "r", "v", "i", "c", "e", " ", "A", "c", "t">> @@
    "HTTP://Example.com/bill1/?v=2#top" :> <<"H", "T", "T", "P", ":", "/", "/", "E", "x", "a", "m", "p", "l", "e", ".", "c", "o", "m", "/", "b", "i", "l", "l", "1", "/", "?", "v", "=", "2", "#", "t", "o", "p">> @@
    "2024-01-12" :> <<"2", "0", "2", "4", "-", "0", "1", "-", "1", "2">> @@
    "Fast-track Approvals Act 2024 and related orders" :> <<"F", "a", "s", "t", "-", "t", "r", "a", "c", "k", " ", "A", "p", "p", "r", "o", "v", "a", "l", "s", " ", "A", "c", "t", " ", "2", "0", "2", "4", " ", "a", "n", "d", " ", "r", "e", "l", "a", "t", "e", "d", " ", "o", "r", "d", "e", "r", "s">> @@
    "http://legislation.example/o/6" :> <<"h", "t", "t", "p", ":", "/", "/", "l", "e", "g", "i", "s", "l", "a", "t", "i", "o", "n", ".", "e", "x", "a", "m", "p", "l", "e", "/", "o", "/", "6">> @@
    "2025-02-01" :> <<"2", "0", "2", "5", "-", "0", "2", "-", "0", "1">> @@
    "Water Services Bill" :> <<"W", "a", "t", "e", "r", " ", "S", "e", "r", "v", "i", "c", "e", "s", " ", "B", "i", "l", "l">> @@
    "https://water.example/w1" :> <<"h", "t", "t", "p", "s", ":", "/", "/", "w", "a", "t", "e", "r", ".", "e", "x", "a", "m", "p", "l", "e", "/", "w", "1">> @@
    "2024-01-10" :> <<"2", "0", "2", "4", "-", "0", "1", "-", "1", "0">> @@
    "Water Services Bull" :> <<"W", "a", "t", "e", "r", " ", "S", "e", "r", "v", "i", "c", "e", "s", " ", "B", "u", "l", "l">> @@
    "2024-01-25" :> <<"2", "0", "2", "4", "-", "0", "1", "-", "2", "5">> @@
    "Water Services Bi" :> <<"W", "a", "t", "e", "r", " ", "S", "e", "r", "v", "i", "c", "e", "s", " ", "B", "i">> @@
    "https://water.example/w2" :> <<"h", "t", "t", "p", "s", ":", "/", "/", "w", "a", "t", "e", "r", ".", "e", "x", "a", "m", "p", "l", "e", "/", "w", "2">> @@
    "2024-03-01" :> <<"2", "0", "2", "4", "-", "0", "3", "-", "0", "1">> @@
    "  WATER SERVICES BI " :> <<" ", " ", "W", "A", "T", "E", "R", " ", "S", "E", "R", "V", "I", "C", "E", "S", " ", "B", "I", " ">> @@
    "" :> <<>> @@
    "2024-02-30" :> <<"2", "0", "2", "4", "-", "0", "2", "-", "3", "0">> @@
    "Water Services" :> <<"W", "a", "t", "e", "r", " ", "S", "e", "r", "v", "i", "c", "e", "s">> @@
    "http://beehive.govt.nz/r/9" :> <<"h", "t", "t", "p", ":", "/", "/", "b", "e", "e", "h", "i", "v", "e", ".", "g", "o", "v", "t", ".", "n", "z", "/", "r", "/", "9">> @@
    "2024-01-17" :> <<"2", "0", "2", "4", "-", "0", "1", "-", "1", "7">> @@
    "http://[bad" :> <<"h", "t", "t", "p", ":", "/", "/", "[", "b", "a", "d">> @@
    "https://bills.parliament.nz/14" :> <<"h", "t", "t", "p", "s", ":", "/", "/", "b", "i", "l", "l", "s", ".", "p", "a", "r", "l", "i", "a", "m", "e", "n", "t", ".", "n", "z", "/", "1", "4">> @@
    "https://bills.parliament.nz/17" :> <<"h", "t", "t", "p", "s", ":", "/", "/", "b", "i", "l", "l", "s", ".", "p", "a", "r", "l", "i", "a", "m", "e", "n", "t", ".", "n", "z", "/", "1", "7">> @@
    "2024-11-01" :> <<"2", "0", "2", "4", "-", "1", "1", "-", "0", "1">>

(* ---------------------------------------------------------------------- *)
(* str.lower(), str.strip(), str.rstrip('/')                               *)
(* ---------------------------------------------------------------------- *)
UpperCase == <<"A","B","C","D","E","F","G","H","I","J","K","L","M",
               "N","O","P","Q","R","S","T","U","V","W","X","Y","Z">>
LowerCase == <<"a","b","c","d","e","f","g","h","i","j","k","l","m",
               "n","o","p","q","r","s","t","u","v","w","x","y","z">>
Digits == <<"0","1","2","3","4","5","6","7","8","9">>

IsWs(c) == c \in {" ", "\t", "\n"}

lower_char(c) ==
    IF \E i \in 1..26 : UpperCase[i] = c
    THEN LowerCase[CHOOSE i \in 1..26 : UpperCase[i] = c]
    ELSE c

lower(s) == [i \in 1..Len(s) |-> lower_char(s[i])]

RECURSIVE lstrip(_)
lstrip(s) == IF s # <<>> /\ IsWs(Head(s)) THEN lstrip(Tail(s)) ELSE s

RECURSIVE rstrip(_)
rstrip(s) == IF s # <<>> /\ IsWs(s[Len(s)]) THEN rstrip(SubSeq(s, 1, Len(s) - 1)) ELSE s

strip(s) == lstrip(rstrip(s))

RECURSIVE rstrip_slash(_)
rstrip_slash(s) ==
    IF s # <<>> /\ s[Len(s)] = "/" THEN rstrip_slash(SubSeq(s, 1, Len(s) - 1)) ELSE s

StartsWith(s, w) == Len(s) >= Len(w) /\ SubSeq(s, 1, Len(w)) = w
EndsWith(s, w) == Len(s) >= Len(w) /\ SubSeq(s, Len(s) - Len(w) + 1, Len(s)) = w

Min(S) == CHOOSE x \in S : \A y \in S : x <= y
Max(S) == CHOOSE x \in S : \A y \in S : y <= x

(* ---------------------------------------------------------------------- *)
(* fuzz.ratio: int(round(100 * SequenceMatcher(None, s1, s2).ratio())),    *)
(* with fuzzywuzzy's guards (equal strings give 100, an empty one 0).      *)
(* SequenceMatcher counts the characters of the matching blocks found by   *)
(* taking the longest common block (earliest in s1, then earliest in s2)   *)
(* and recursing on both sides of it; ratio() is 2*M/T.                    *)
(* ---------------------------------------------------------------------- *)
RECURSIVE run_length(_, _, _, _, _, _)
run_length(a, b, i, j, ahi, bhi) ==
    IF i > ahi \/ j > bhi THEN 0
    ELSE IF a[i] # b[j] THEN 0
    ELSE 1 + run_length(a, b, i + 1, j + 1, ahi, bhi)

find_longest_match(a, b, alo, ahi, blo, bhi) ==
    LET runs == [p \in (alo..ahi) \X (blo..bhi) |->
                    run_length(a, b, p[1], p[2], ahi, bhi)]
        k == Max({runs[p] : p \in DOMAIN runs})
        i == Min({p[1] : p \in {q \in DOMAIN runs : runs[q] = k}})
        j == Min({p[2] : p \in {q \in DOMAIN runs : q[1] = i /\ runs[q] = k}})
    IN <<i, j, k>>

RECURSIVE matching_chars(_, _, _, _, _, _)
matching_chars(a, b, alo, ahi, blo, bhi) ==
    IF alo > ahi \/ blo > bhi THEN 0
    ELSE LET m == find_longest_match(a, b, alo, ahi, blo, bhi)
         IN IF m[3] = 0 THEN 0
            ELSE m[3] + matching_chars(a, b, alo, m[1] - 1, blo, m[2] - 1)
                      + matching_chars(a, b, m[1] + m[3], ahi, m[2] + m[3], bhi)

\* Python round(): to the nearest integer, a half to the even one
round_div(n, d) ==
    LET q == n \div d
        r == n % d
    IN IF 2 * r < d THEN q
       ELSE IF 2 * r > d THEN q + 1
       ELSE IF q % 2 = 0 THEN q ELSE q + 1

ratio(s1, s2) ==
    IF s1 = s2 THEN 100
    ELSE IF Len(s1) = 0 \/ Len(s2) = 0 THEN 0
    ELSE round_div(200 * matching_chars(s1, s2, 1, Len(s1), 1, Len(s2)),
                   Len(s1) + Len(s2))

(* ---------------------------------------------------------------------- *)
(* _clean_title_for_comparison: five re.sub calls with re.IGNORECASE,      *)
(* then whitespace runs collapsed to one space and strip().                *)
(* ---------------------------------------------------------------------- *)
Word_bill == <<"b","i","l","l">>
Word_act == <<"a","c","t">>
Word_government == <<"g","o","v","e","r","n","m","e","n","t">>
Word_new == <<"n","e","w">>
Word_amendment == <<"a","m","e","n","d","m","e","n","t">>

\* re.sub(r'\s+WORD\s*$', '', s)
sub_trailing_word(s, w) ==
    LET t == rstrip(s)
        n == Len(t) - Len(w)
    IN IF n >= 1 /\ EndsWith(lower(t), w) /\ IsWs(t[n])
       THEN rstrip(SubSeq(t, 1, n))
       ELSE s

\* re.sub(r'^\s*WORD\s+', '', s)
sub_leading_word(s, w) ==
    LET t == lstrip(s)
    IN IF Len(t) > Len(w) /\ StartsWith(lower(t), w) /\ IsWs(t[Len(w) + 1])
       THEN lstrip(SubSeq(t, Len(w) + 1, Len(t)))
       ELSE s

IsDigit(c) == \E i \in 1..10 : Digits[i] = c

\* \s+act\s+\d{4}.*$ matches with "act" at p: whitespace before it, then
\* whitespace, four digits, and no newline before the end of the string
\* (one final newline is left in place by $).
act_year_at(s, p) ==
    /\ p >= 2 /\ p + 2 <= Len(s)
    /\ IsWs(s[p - 1])
    /\ lower(SubSeq(s, p, p + 2)) = Word_act
    /\ \E q \in (p + 4)..(Len(s) - 3) :
          /\ \A x \in (p + 3)..(q - 1) : IsWs(s[x])
          /\ \A x \in q..(q + 3) : IsDigit(s[x])
          /\ \A x \in (q + 4)..(Len(s) - 1) : s[x] # "\n"

\* re.sub(r'\s+act\s+\d{4}.*$', '', s)
sub_act_year(s) ==
    LET P == {p \in 1..Len(s) : act_year_at(s, p)}
    IN IF P = {} THEN s
       ELSE LET head == rstrip(SubSeq(s, 1, Min(P) - 1))
            IN IF s[Len(s)] = "\n" THEN Append(head, "\n") ELSE head

\* re.sub(r'\s+', ' ', s)
RECURSIVE collapse_ws(_)
collapse_ws(s) ==
    IF s = <<>> THEN <<>>
    ELSE IF IsWs(Head(s)) THEN <<" ">> \o collapse_ws(lstrip(s))
    ELSE <<Head(s)>> \o collapse_ws(Tail(s))

clean_title_for_comparison(title) ==
    LET t1 == sub_trailing_word(title, Word_bill)
        t2 == sub_act_year(t1)
        t3 == sub_leading_word(t2, Word_government)
        t4 == sub_leading_word(t3, Word_new)
        t5 == sub_trailing_word(t4, Word_amendment)
    IN strip(collapse_ws(t5))

(* ---------------------------------------------------------------------- *)
(* _normalize_url: urlparse(url.lower()), netloc + path.rstrip('/').       *)
(* urlparse: a scheme is a letter followed by letters, digits, + - .       *)
(* up to the first ':'; after "//" the netloc runs to the first / ? #;     *)
(* the fragment is cut at the first '#', the query at the first '?'.       *)
(* A netloc with one square bracket and not the other is a ValueError.     *)
(* ---------------------------------------------------------------------- *)
IsLetter(c) == \E i \in 1..26 : LowerCase[i] = c \/ UpperCase[i] = c
IsSchemeChar(c) == IsLetter(c) \/ IsDigit(c) \/ c \in {"+", "-", "."}

\* index of the first character of s that is in C, Len(s)+1 when there is none
FirstOf(s, C) == Min({i \in 1..Len(s) : s[i] \in C} \cup {Len(s) + 1})

after_scheme(u) ==
    LET i == FirstOf(u, {":"})
    IN IF i > 1 /\ i <= Len(u) /\ IsLetter(u[1])
          /\ \A x \in 1..(i - 1) : IsSchemeChar(u[x])
       THEN SubSeq(u, i + 1, Len(u))
       ELSE u

HasNetloc(u) == StartsWith(after_scheme(u), <<"/", "/">>)

urlparse_netloc(u) ==
    IF HasNetloc(u)
    THEN LET r == SubSeq(after_scheme(u), 3, Len(after_scheme(u)))
         IN SubSeq(r, 1, FirstOf(r, {"/", "?", "#"}) - 1)
    ELSE <<>>

urlparse_path(u) ==
    LET a == after_scheme(u)
        r == IF HasNetloc(u)
             THEN SubSeq(a, 3 + Len(urlparse_netloc(u)), Len(a))
             ELSE a
    IN SubSeq(r, 1, FirstOf(r, {"?", "#"}) - 1)

urlparse_raises(u) ==
    LET n == urlparse_netloc(u)
    IN (\E i \in 1..Len(n) : n[i] = "[") # (\E i \in 1..Len(n) : n[i] = "]")

\* normalize_url that lowers the URL and leaves it whole
normalize_url_lower_only(url) ==
    IF ~Truthy(url) THEN <<>> ELSE lower(Chars[url])

normalize_url(url) ==
    IF ~Truthy(url) THEN <<>>
    ELSE LET u == lower(Chars[url])
         IN IF urlparse_raises(u) THEN u
            ELSE urlparse_netloc(u) \o rstrip_slash(urlparse_path(u))

(* ---------------------------------------------------------------------- *)
(* _dates_are_similar: datetime.strptime(date, '%Y-%m-%d') and the         *)
(* difference in days.                                                     *)
(* ---------------------------------------------------------------------- *)
digit_value(c) == (CHOOSE i \in 1..10 : Digits[i] = c) - 1

RECURSIVE int_of(_)
int_of(s) == IF s = <<>> THEN 0
             ELSE 10 * int_of(SubSeq(s, 1, Len(s) - 1)) + digit_value(s[Len(s)])

AllDigits(s) == \A i \in 1..Len(s) : IsDigit(s[i])

IsLeap(y) == (y % 4 = 0 /\ y % 100 # 0) \/ y % 400 = 0

DaysInMonth(y, m) ==
    IF m = 2 THEN (IF IsLeap(y) THEN 29 ELSE 28)
    ELSE IF m \in {4, 6, 9, 11} THEN 30 ELSE 31

\* the three fields of a string of the form Y-M-D
date_fields(s) ==
    LET i == FirstOf(s, {"-"})
        r == SubSeq(s, i + 1, Len(s))
        j == FirstOf(r, {"-"})
    IN <<SubSeq(s, 1, i - 1), SubSeq(r, 1, j - 1), SubSeq(r, j + 1, Len(r))>>

\* %d also accepts a space followed by one digit
day_digits(s) == IF Len(s) = 2 /\ s[1] = " " THEN <<s[2]>> ELSE s

\* strptime raises ValueError
strptime_fails(s) ==
    LET f == date_fields(s)
        dd == day_digits(f[3])
    IN \/ Cardinality({i \in 1..Len(s) : s[i] = "-"}) # 2
       \/ Len(f[1]) # 4 \/ ~AllDigits(f[1]) \/ int_of(f[1]) < 1
       \/ Len(f[2]) \notin {1, 2} \/ ~AllDigits(f[2])
       \/ int_of(f[2]) \notin 1..12
       \/ Len(dd) \notin {1, 2} \/ ~AllDigits(dd)
       \/ int_of(dd) \notin 1..DaysInMonth(int_of(f[1]), int_of(f[2]))

RECURSIVE days_before_month(_, _)
days_before_month(y, m) ==
    IF m = 1 THEN 0 ELSE days_before_month(y, m - 1) + DaysInMonth(y, m - 1)

\* date.toordinal()
ordinal(s) ==
    LET f == date_fields(s)
        y == int_of(f[1])
        m == int_of(f[2])
        d == int_of(day_digits(f[3]))
        p == y - 1
    IN p * 365 + p \div 4 - p \div 100 + p \div 400 + days_before_month(y, m) + d

Abs(x) == IF x < 0 THEN 0 - x ELSE x

\* the call raises TypeError: strptime is given a value that is not a str
dates_are_similar_raises(date1, date2) ==
    /\ Truthy(date1) /\ Truthy(date2)
    /\ \/ ~IsStr(date1)
       \/ ~IsStr(date2) /\ ~strptime_fails(Chars[date1])

\* dates_are_similar with < for <= in the comparison of the difference
dates_are_similar_below(date1, date2, max_days_diff) ==
    IF ~Truthy(date1) \/ ~Truthy(date2) THEN FALSE
    ELSE IF dates_are_similar_raises(date1, date2) THEN FALSE
    ELSE IF strptime_fails(Chars[date1]) THEN FALSE
    ELSE IF strptime_fails(Chars[date2]) THEN FALSE
    ELSE Abs(ordinal(Chars[date1]) - ordinal(Chars[date2])) < max_days_diff

dates_are_similar(date1, date2, max_days_diff) ==
    IF ~Truthy(date1) \/ ~Truthy(date2) THEN FALSE
    ELSE IF dates_are_similar_raises(date1, date2) THEN FALSE  \* no value: it raises
    ELSE IF strptime_fails(Chars[date1]) THEN FALSE
    ELSE IF strptime_fails(Chars[date2]) THEN FALSE
    ELSE Abs(ordinal(Chars[date1]) - ordinal(Chars[date2])) <= max_days_diff

(* ---------------------------------------------------------------------- *)
(* The defaults of Deduplicator.__init__ and of _dates_are_similar         *)
(* ---------------------------------------------------------------------- *)
title_similarity_threshold == 85
url_similarity_threshold == 90
exact_match_threshold == 95
max_days_diff_default == 7

(* ---------------------------------------------------------------------- *)
(* The records the calls are made with                                     *)
(* ---------------------------------------------------------------------- *)
Rec(id, title, url, date, source, summary, metadata, last_scraped) ==
    [id |-> id, title |-> title, url |-> url, date |-> date,
     source_system |-> source, summary |-> summary,
     metadata |-> metadata, last_scraped |-> last_scraped]

SummaryBill == "A bill to provide fast-track approvals"
SummaryAct == "An act to provide fast-track approvals"
Ten == "0123456789"
Hundred == Ten \o Ten \o Ten \o Ten \o Ten \o Ten \o Ten \o Ten \o Ten \o Ten
SummaryLong == Hundred \o Hundred \o Hundred \o Hundred \o Hundred \o Hundred

\* the first two and the third are the records of main()'s test data
P1 == Rec("test-001", "Fast-track Approvals Bill", "https://example.com/bill1",
          "2024-12-05", "PARLIAMENT", SummaryBill, <<>>, Absent)
P2 == Rec("test-002", "Fast-track Approvals Bill", "https://example.com/bill1",
          "2024-12-05", "PARLIAMENT", SummaryBill, <<>>, Absent)
L3 == Rec("test-003", "Fast-Track Approvals Act 2024", "https://example.com/act1",
          "2024-12-06", "LEGISLATION", SummaryAct, <<>>, Absent)
A4 == Rec("test-001", "Budget 2024", "https://example.com/act1",
          "2024-05-30", "BEEHIVE", Absent, <<>>, Absent)
U5 == Rec("test-005", "Water Service Act", "HTTP://Example.com/bill1/?v=2#top",
          "2024-01-12", "LEGISLATION", "", <<>>, Absent)
L6 == Rec("test-006", "Fast-track Approvals Act 2024 and related orders",
          "http://legislation.example/o/6", "2025-02-01", "LEGISLATION",
          SummaryAct, <<>>, "2025-02-02T00:00:00")
W7 == Rec("test-007", "Water Services Bill", "https://water.example/w1",
          "2024-01-10", "PARLIAMENT", Absent, <<>>, Absent)
W8 == Rec("test-008", "Water Services Bull", Absent,
          "2024-01-25", "PARLIAMENT", SummaryBill, <<>>, Absent)
W9 == Rec("test-009", "Water Services Bi", "https://water.example/w2",
          "2024-03-01", "GAZETTE", Absent, <<>>, Absent)
W10 == Rec("", "  WATER SERVICES BI ", "",
           "2024-02-30", "GAZETTE", Absent, <<>>, Absent)
W11 == Rec("test-011", "Water Services", "http://beehive.govt.nz/r/9",
           "2024-01-17", "BEEHIVE", Absent, <<"x", None>>, Absent)
N12 == Rec("test-012", None, Absent, Absent, Absent, Absent, <<>>, Absent)
D13 == Rec("test-013", "Water Services Bill", "http://[bad",
           NonStr, "PARLIAMENT", Absent, <<>>, Absent)
M14 == Rec("test-014", "Fast-track Approvals Bill", "https://bills.parliament.nz/14",
           "2024-11-01", "PARLIAMENT", SummaryLong,
           <<"1", "2", "3", "4", "5", None>>, "2024-11-02T00:00:00")
           @@ [base_id |-> "bill-2024-014", version |-> "2"]
E15 == Rec(Absent, Absent, Absent, Absent, Absent, Absent, <<>>, Absent)

\* a list item that is not a dict
X16 == [not_a_dict |-> "7"]

\* the version of M14 before it, with one metadata value fewer
M17 == Rec("test-017", "Fast-track Approvals Bill", "https://bills.parliament.nz/17",
           "2024-11-01", "PARLIAMENT", SummaryLong,
           <<"1", "2", "3", "4", None>>, "2024-11-02T00:00:00")
           @@ [base_id |-> "bill-2024-014", version |-> "1"]

\* W9 without a URL
W18 == Rec("test-018", "Water Services Bi", Absent,
           "2024-03-01", "PARLIAMENT", Absent, <<>>, Absent)

\* an announcement with the title of A4 and the URL of W9
B19 == Rec("test-019", "Budget 2024", "https://water.example/w2",
           "2024-05-30", "BEEHIVE", Absent, <<>>, Absent)

Records == {P1, P2, L3, A4, U5, L6, W7, W8, W9, W10, W11, N12, D13, M14, E15, M17, W18,
            B19}
Items == Records \cup {X16}

\* two records with a blank title and the URL of W7 and of W9; they are given
\* to the two checks only
T20 == Rec("test-020", "", "https://water.example/w1",
           "2024-01-10", "PARLIAMENT", Absent, <<>>, Absent)
T21 == Rec("test-021", "   ", "https://water.example/w2",
           "2024-03-01", "BEEHIVE", Absent, <<>>, Absent)

\* the records the checks are called with
CheckRecords == Records \cup {T20, T21}

\* the URLs of the two records _remove_exact_duplicates is called with on
\* its own: the URL of W7 written in six ways, the URL of W9, and three
\* strings without host and path
ExactUrls ==
    {"https://water.example/w1", "http://water.example/w1", "HTTPS://Water.Example/W1",
     "https://water.example/w1//", "https://water.example/w1?page=2",
     "https://water.example/w1#s2", "https://water.example/w2", "", "/", "https://"}

\* the lists of at most n items
Lists(n) == UNION {[1..k -> Items] : k \in 0..n}

(* ---------------------------------------------------------------------- *)
(* Tables of the string functions over the strings of the records, so      *)
(* that each is computed once                                              *)
(* ---------------------------------------------------------------------- *)
TitleStrings == {Get(r, "title", "") : r \in CheckRecords} \ {None, NonStr}
UrlStrings == {Get(r, "url", "") : r \in CheckRecords} \ {None, NonStr}
\* the dates of the records, a null, a date without zero padding and a
\* string that is no date
DateValues ==
    {Get(r, "date", "") : r \in CheckRecords} \cup {None, "2024-1-17", "tomorrow"}

\* title.lower().strip()
LowerStripTable == [t \in TitleStrings |-> strip(lower(Chars[t]))]
\* self._clean_title_for_comparison(title.lower())
CleanTable == [t \in TitleStrings |-> clean_title_for_comparison(lower(Chars[t]))]
\* fuzz.ratio(title1, title2) of the lower().strip() of two titles
TitleRatioTable ==
    [t1 \in TitleStrings, t2 \in TitleStrings |->
        ratio(LowerStripTable[t1], LowerStripTable[t2])]
\* fuzz.ratio of the cleaned forms of two titles
CleanRatioTable ==
    [t1 \in TitleStrings, t2 \in TitleStrings |->
        ratio(CleanTable[t1], CleanTable[t2])]
\* fuzz.ratio(url1, url2)
UrlRatioTable == [u1 \in UrlStrings, u2 \in UrlStrings |-> ratio(Chars[u1], Chars[u2])]
\* self._normalize_url(url)
NormalizeTable == [u \in UrlStrings \cup ExactUrls \cup {None} |-> normalize_url(u)]
\* self._dates_are_similar(date1, date2), max_days_diff left at its default
DatesTable ==
    [d1 \in DateValues, d2 \in DateValues |->
        dates_are_similar(d1, d2, max_days_diff_default)]

(* ---------------------------------------------------------------------- *)
(* _are_similar_actions_debug                                              *)
(* ---------------------------------------------------------------------- *)
\* action.get('title', '').lower() raises AttributeError
title_raises(action) == ~IsStr(Get(action, "title", ""))

\* `not title`, for title = action.get('title', '').lower().strip()
title_is_empty(action) == LowerStripTable[Get(action, "title", "")] = <<>>

are_similar_actions_raises(action1, action2) ==
    \/ title_raises(action1)
    \/ title_raises(action2)
    \/ /\ ~title_is_empty(action1)
       /\ ~title_is_empty(action2)
       /\ dates_are_similar_raises(Get(action1, "date", ""), Get(action2, "date", ""))

\* fuzz.ratio(url1, url2) if url1 and url2 else 0
url_similarity_of(url1, url2) ==
    IF Truthy(url1) /\ Truthy(url2) THEN UrlRatioTable[url1, url2] ELSE 0

\* similar_verdict with > for >= in the first test
similar_verdict_strict(title_similarity, date_match, url_similarity) ==
    IF title_similarity > exact_match_threshold
    THEN [is_similar |-> TRUE, reason |-> "Very high title similarity",
          title_similarity |-> title_similarity]
    ELSE IF title_similarity >= title_similarity_threshold /\ date_match
    THEN [is_similar |-> TRUE, reason |-> "High title similarity + similar dates",
          title_similarity |-> title_similarity]
    ELSE IF url_similarity >= url_similarity_threshold
    THEN [is_similar |-> TRUE, reason |-> "High URL similarity",
          title_similarity |-> title_similarity]
    ELSE [is_similar |-> FALSE, reason |-> "Low similarity",
          title_similarity |-> title_similarity]

\* the if/elif chain of lines 320-343
similar_verdict(title_similarity, date_match, url_similarity) ==
    IF title_similarity >= exact_match_threshold
    THEN [is_similar |-> TRUE, reason |-> "Very high title similarity",
          title_similarity |-> title_similarity]
    ELSE IF title_similarity >= title_similarity_threshold /\ date_match
    THEN [is_similar |-> TRUE, reason |-> "High title similarity + similar dates",
          title_similarity |-> title_similarity]
    ELSE IF url_similarity >= url_similarity_threshold
    THEN [is_similar |-> TRUE, reason |-> "High URL similarity",
          title_similarity |-> title_similarity]
    ELSE [is_similar |-> FALSE, reason |-> "Low similarity",
          title_similarity |-> title_similarity]

are_similar_actions_debug(action1, action2) ==
    IF title_is_empty(action1) \/ title_is_empty(action2)
    THEN [is_similar |-> FALSE, reason |-> "Missing titles"]
    ELSE similar_verdict(
             TitleRatioTable[Get(action1, "title", ""), Get(action2, "title", "")],
             DatesTable[Get(action1, "date", ""), Get(action2, "date", "")],
             url_similarity_of(Get(action1, "url", ""), Get(action2, "url", "")))

\* are_similar_actions without its third test, that of the URLs
are_similar_actions_without_url_rule(action1, action2) ==
    IF title_is_empty(action1) \/ title_is_empty(action2)
    THEN FALSE
    ELSE IF TitleRatioTable[Get(action1, "title", ""), Get(action2, "title", "")]
                >= exact_match_threshold
    THEN TRUE
    ELSE /\ TitleRatioTable[Get(action1, "title", ""), Get(action2, "title", "")]
                >= title_similarity_threshold
         /\ DatesTable[Get(action1, "date", ""), Get(action2, "date", "")]

\* _are_similar_actions: it raises when are_similar_actions_raises
are_similar_actions(action1, action2) ==
    IF title_is_empty(action1) \/ title_is_empty(action2)
    THEN FALSE
    ELSE IF TitleRatioTable[Get(action1, "title", ""), Get(action2, "title", "")]
                >= exact_match_threshold
    THEN TRUE
    ELSE IF /\ TitleRatioTable[Get(action1, "title", ""), Get(action2, "title", "")]
                   >= title_similarity_threshold
            /\ DatesTable[Get(action1, "date", ""), Get(action2, "date", "")]
    THEN TRUE
    ELSE IF url_similarity_of(Get(action1, "url", ""), Get(action2, "url", ""))
                >= url_similarity_threshold
    THEN TRUE
    ELSE FALSE

(* ---------------------------------------------------------------------- *)
(* _are_cross_source_duplicates_debug and its two patterns                 *)
(* ---------------------------------------------------------------------- *)
\* is_bill_and_act_sources for a bill given first and its act second only
is_bill_and_act_sources_one_order(source1, source2) ==
    source1 = "PARLIAMENT" /\ source2 = "LEGISLATION"

is_bill_and_act_sources(source1, source2) ==
    \/ source1 = "PARLIAMENT" /\ source2 = "LEGISLATION"
    \/ source1 = "LEGISLATION" /\ source2 = "PARLIAMENT"

is_bill_and_corresponding_act(action1, action2) ==
    IF ~is_bill_and_act_sources(Get(action1, "source_system", ""),
                                Get(action2, "source_system", ""))
    THEN FALSE
    ELSE CleanRatioTable[Get(action1, "title", ""), Get(action2, "title", "")]
             >= title_similarity_threshold

announcement_sources == {"BEEHIVE"}
formal_sources == {"PARLIAMENT", "LEGISLATION", "GAZETTE"}

is_announcement_formal(source1, source2) ==
    \/ source1 \in announcement_sources /\ source2 \in formal_sources
    \/ source1 \in formal_sources /\ source2 \in announcement_sources

\* is_announcement_and_formal_document without the comparison of the titles
is_announcement_and_formal_document_by_source(action1, action2) ==
    is_announcement_formal(Get(action1, "source_system", ""),
                           Get(action2, "source_system", ""))

is_announcement_and_formal_document(action1, action2) ==
    IF ~is_announcement_formal(Get(action1, "source_system", ""),
                               Get(action2, "source_system", ""))
    THEN FALSE
    ELSE CleanRatioTable[Get(action1, "title", ""), Get(action2, "title", "")]
             >= title_similarity_threshold

are_cross_source_duplicates_raises(action1, action2) ==
    title_raises(action1) \/ title_raises(action2)

\* the if/elif chain of lines 391-410
cross_verdict(is_bill_and_act, title_similarity, is_announcement_and_formal) ==
    IF is_bill_and_act
    THEN [is_duplicate |-> TRUE, reason |-> "Bill-to-Act match"]
    ELSE IF title_similarity >= exact_match_threshold
    THEN [is_duplicate |-> TRUE, reason |-> "Very high cross-source title similarity"]
    ELSE IF is_announcement_and_formal
    THEN [is_duplicate |-> TRUE, reason |-> "Announcement-to-formal match"]
    ELSE [is_duplicate |-> FALSE, reason |-> "Low cross-source similarity"]

are_cross_source_duplicates_debug(action1, action2) ==
    IF title_is_empty(action1) \/ title_is_empty(action2)
    THEN [is_duplicate |-> FALSE, reason |-> "Missing titles"]
    ELSE cross_verdict(
             is_bill_and_corresponding_act(action1, action2),
             TitleRatioTable[Get(action1, "title", ""), Get(action2, "title", "")],
             is_announcement_and_formal_document(action1, action2))

\* _are_cross_source_duplicates: it raises when
\* are_cross_source_duplicates_raises
are_cross_source_duplicates(action1, action2) ==
    IF title_is_empty(action1) \/ title_is_empty(action2)
    THEN FALSE
    ELSE \/ is_bill_and_corresponding_act(action1, action2)
         \/ TitleRatioTable[Get(action1, "title", ""), Get(action2, "title", "")]
                >= exact_match_threshold
         \/ is_announcement_and_formal_document(action1, action2)

(* ---------------------------------------------------------------------- *)
(* _score_action, in hundredths of a point, and the two selectors          *)
(* ---------------------------------------------------------------------- *)
similar_source_priority ==
    [PARLIAMENT |-> 4, LEGISLATION |-> 3, BEEHIVE |-> 2, GAZETTE |-> 1]
\* the table of the similar stage used in the cross-source stage
cross_source_priority_of_similar_stage == similar_source_priority

cross_source_priority ==
    [LEGISLATION |-> 4, PARLIAMENT |-> 3, GAZETTE |-> 2, BEEHIVE |-> 1]

MinOf(a, b) == IF a <= b THEN a ELSE b

\* score_action with 9 points for each rank of the source
score_action_nine_per_rank(action, source_priority) ==
    LET source == Get(action, "source_system", "")
        summary == Get(action, "summary", "")
        title == Get(action, "title", "")
        last_scraped == Get(action, "last_scraped", "")
        metadata == action.metadata
    IN (IF source \in DOMAIN source_priority THEN source_priority[source] ELSE 0) * 900
       + (IF Truthy(summary) THEN MinOf(Len(summary), 500) ELSE 0)
       + (IF Truthy(title) THEN MinOf(2 * Len(title), 300) ELSE 0)
       + 100 * Cardinality({i \in 1..Len(metadata) : metadata[i] # None})
       + (IF Truthy(last_scraped) THEN 100 ELSE 0)

score_action(action, source_priority) ==
    LET source == Get(action, "source_system", "")
        summary == Get(action, "summary", "")
        title == Get(action, "title", "")
        last_scraped == Get(action, "last_scraped", "")
        metadata == action.metadata
    IN (IF source \in DOMAIN source_priority THEN source_priority[source] ELSE 0) * 1000
       + (IF Truthy(summary) THEN MinOf(Len(summary), 500) ELSE 0)
       + (IF Truthy(title) THEN MinOf(2 * Len(title), 300) ELSE 0)
       + 100 * Cardinality({i \in 1..Len(metadata) : metadata[i] # None})
       + (IF Truthy(last_scraped) THEN 100 ELSE 0)

RECURSIVE best_of(_, _, _, _, _)

\* best_of with `score >= best_score`: the last member with the highest score
best_of_last(d, members, k, best, source_priority) ==
    IF k > Len(members) THEN best
    ELSE best_of(d, members, k + 1,
                 IF score_action(d[members[k]], source_priority)
                        >= score_action(d[best], source_priority)
                 THEN members[k] ELSE best,
                 source_priority)

\* the loop of both selectors: the first member with the highest score
best_of(d, members, k, best, source_priority) ==
    IF k > Len(members) THEN best
    ELSE best_of(d, members, k + 1,
                 IF score_action(d[members[k]], source_priority)
                        > score_action(d[best], source_priority)
                 THEN members[k] ELSE best,
                 source_priority)

choose_best_action(d, members) ==
    IF Len(members) = 1 THEN members[1]
    ELSE best_of(d, members, 2, members[1], similar_source_priority)

choose_best_cross_source_action(d, members) ==
    best_of(d, members, 2, members[1], cross_source_priority)

(* ---------------------------------------------------------------------- *)
(* The three stages.  A list of actions is a sequence of indices into d,   *)
(* the list process was called with: an index is a reference to a record.  *)
(* ---------------------------------------------------------------------- *)
\* the state of the loop of _remove_exact_duplicates
ExactState(seen_ids, seen_urls, unique_actions) ==
    [seen_ids |-> seen_ids, seen_urls |-> seen_urls, unique_actions |-> unique_actions]

\* exact_step with a URL that is never remembered (seen_urls.add left out)
exact_step_url_not_added(seen_ids, seen_urls, unique_actions, action_id, normalized_url, ref) ==
    IF Truthy(action_id) /\ action_id \in seen_ids
    THEN ExactState(seen_ids, seen_urls, unique_actions)
    ELSE IF normalized_url # <<>> /\ normalized_url \in seen_urls
    THEN ExactState(seen_ids, seen_urls, unique_actions)
    ELSE ExactState(IF Truthy(action_id) THEN seen_ids \cup {action_id} ELSE seen_ids,
                    seen_urls,
                    Append(unique_actions, ref))

\* exact_step with an id that is never remembered (seen_ids.add left out)
exact_step_id_not_added(seen_ids, seen_urls, unique_actions, action_id, normalized_url, ref) ==
    IF Truthy(action_id) /\ action_id \in seen_ids
    THEN ExactState(seen_ids, seen_urls, unique_actions)
    ELSE IF normalized_url # <<>> /\ normalized_url \in seen_urls
    THEN ExactState(seen_ids, seen_urls, unique_actions)
    ELSE ExactState(seen_ids,
                    IF normalized_url # <<>> THEN seen_urls \cup {normalized_url}
                    ELSE seen_urls,
                    Append(unique_actions, ref))

\* exact_step with an id that is forgotten when a duplicate of it is dropped
\* (seen_ids.discard in the duplicate branch)
exact_step_id_discarded(seen_ids, seen_urls, unique_actions, action_id, normalized_url, ref) ==
    IF Truthy(action_id) /\ action_id \in seen_ids
    THEN ExactState(seen_ids \ {action_id}, seen_urls, unique_actions)
    ELSE IF normalized_url # <<>> /\ normalized_url \in seen_urls
    THEN ExactState(seen_ids, seen_urls, unique_actions)
    ELSE ExactState(IF Truthy(action_id) THEN seen_ids \cup {action_id} ELSE seen_ids,
                    IF normalized_url # <<>> THEN seen_urls \cup {normalized_url}
                    ELSE seen_urls,
                    Append(unique_actions, ref))

\* exact_step that also remembers the id and the URL of an action it skips
exact_step_remembers_removed(seen_ids, seen_urls, unique_actions, action_id, normalized_url, ref) ==
    ExactState(IF Truthy(action_id) THEN seen_ids \cup {action_id} ELSE seen_ids,
               IF normalized_url # <<>> THEN seen_urls \cup {normalized_url}
               ELSE seen_urls,
               IF \/ Truthy(action_id) /\ action_id \in seen_ids
                  \/ normalized_url # <<>> /\ normalized_url \in seen_urls
               THEN unique_actions ELSE Append(unique_actions, ref))

\* the body of the loop for one action, ref the reference to it: a duplicate
\* by id or by normalized URL is skipped, any other action is kept and its
\* id and URL are remembered
exact_step(seen_ids, seen_urls, unique_actions, action_id, normalized_url, ref) ==
    IF Truthy(action_id) /\ action_id \in seen_ids
    THEN ExactState(seen_ids, seen_urls, unique_actions)
    ELSE IF normalized_url # <<>> /\ normalized_url \in seen_urls
    THEN ExactState(seen_ids, seen_urls, unique_actions)
    ELSE ExactState(IF Truthy(action_id) THEN seen_ids \cup {action_id} ELSE seen_ids,
                    IF normalized_url # <<>> THEN seen_urls \cup {normalized_url}
                    ELSE seen_urls,
                    Append(unique_actions, ref))

RECURSIVE exact_loop(_, _, _, _)
exact_loop(d, acts, k, state) ==
    IF k > Len(acts) THEN state.unique_actions
    ELSE exact_loop(d, acts, k + 1,
                    exact_step(state.seen_ids, state.seen_urls, state.unique_actions,
                               Get(d[acts[k]], "id", ""),
                               NormalizeTable[Get(d[acts[k]], "url", "")],
                               acts[k]))

remove_exact_duplicates(d, acts) == exact_loop(d, acts, 1, ExactState({}, {}, <<>>))

\* the positions of S in increasing order
RECURSIVE Sorted(_)
Sorted(S) == IF S = {} THEN <<>> ELSE <<Min(S)>> \o Sorted(S \ {Min(S)})

\* candidates without `if j in processed_indices: continue`
candidates_processed_too(acts, i, processed_indices) == (i + 1)..Len(acts)

\* the positions after i that are not processed: the ones the inner loop compares
candidates(acts, i, processed_indices) ==
    {j \in (i + 1)..Len(acts) : j \notin processed_indices}

\* a stage's outcome: the list it returns and the groups of records it
\* collapsed to one each (similar_actions, cross_source_actions), or an exception
Returned(list, groups) == [raised |-> FALSE, list |-> list, groups |-> groups]
Raised == [raised |-> TRUE, list |-> <<>>, groups |-> <<>>]

\* [actions[idx] for idx in indices]
actions_at(acts, indices) == [x \in 1..Len(indices) |-> acts[indices[x]]]

\* the inner loop of the similar stage: similar_indices
similar_indices_of(d, acts, i, cand) ==
    <<i>> \o Sorted({j \in cand :
                        are_similar_actions_debug(d[acts[i]], d[acts[j]]).is_similar})

RECURSIVE similar_loop(_, _, _, _, _, _)

\* similar_collapse that marks only the anchor as processed
\* (processed_indices.add(i) for processed_indices.update(similar_indices))
similar_collapse_anchor_only(d, acts, i, processed_indices, unique_actions, groups, similar_indices) ==
    similar_loop(d, acts, i + 1,
                 processed_indices \cup {i},
                 Append(unique_actions,
                        choose_best_action(d, actions_at(acts, similar_indices))),
                 Append(groups, actions_at(acts, similar_indices)))

\* the end of the outer loop's body: the best of the group is kept and the
\* group is marked as processed
similar_collapse(d, acts, i, processed_indices, unique_actions, groups, similar_indices) ==
    similar_loop(d, acts, i + 1,
                 processed_indices \cup {similar_indices[x] : x \in 1..Len(similar_indices)},
                 Append(unique_actions,
                        choose_best_action(d, actions_at(acts, similar_indices))),
                 Append(groups, actions_at(acts, similar_indices)))

similar_loop(d, acts, i, processed_indices, unique_actions, groups) ==
    IF i > Len(acts) THEN Returned(unique_actions, groups)
    ELSE IF i \in processed_indices
    THEN similar_loop(d, acts, i + 1, processed_indices, unique_actions, groups)
    ELSE IF \E j \in candidates(acts, i, processed_indices) :
                are_similar_actions_raises(d[acts[i]], d[acts[j]])
    THEN Raised
    ELSE similar_collapse(d, acts, i, processed_indices, unique_actions, groups,
             similar_indices_of(d, acts, i, candidates(acts, i, processed_indices)))

remove_similar_duplicates(d, acts) == similar_loop(d, acts, 1, {}, <<>>, <<>>)

\* the candidates the cross-source stage compares with the anchor
\* cross_compared without the test of the two source_system values
cross_compared_any_source(d, acts, i, processed_indices) ==
    candidates(acts, i, processed_indices)

cross_compared(d, acts, i, processed_indices) ==
    {j \in candidates(acts, i, processed_indices) :
        Get(d[acts[i]], "source_system", None) # Get(d[acts[j]], "source_system", None)}

\* the inner loop of the cross-source stage: cross_source_indices
cross_source_indices_of(d, acts, i, cand) ==
    <<i>> \o Sorted({j \in cand :
                        are_cross_source_duplicates_debug(d[acts[i]],
                                                          d[acts[j]]).is_duplicate})

RECURSIVE cross_loop(_, _, _, _, _, _)

\* the end of the outer loop's body
cross_collapse(d, acts, i, processed_indices, unique_actions, groups, cross_source_indices) ==
    cross_loop(d, acts, i + 1,
               processed_indices \cup
                   {cross_source_indices[x] : x \in 1..Len(cross_source_indices)},
               Append(unique_actions,
                      IF Len(cross_source_indices) > 1
                      THEN choose_best_cross_source_action(d,
                               actions_at(acts, cross_source_indices))
                      ELSE acts[i]),
               Append(groups, actions_at(acts, cross_source_indices)))

cross_loop(d, acts, i, processed_indices, unique_actions, groups) ==
    IF i > Len(acts) THEN Returned(unique_actions, groups)
    ELSE IF i \in processed_indices
    THEN cross_loop(d, acts, i + 1, processed_indices, unique_actions, groups)
    ELSE IF \E j \in cross_compared(d, acts, i, processed_indices) :
                are_cross_source_duplicates_raises(d[acts[i]], d[acts[j]])
    THEN Raised
    ELSE cross_collapse(d, acts, i, processed_indices, unique_actions, groups,
             cross_source_indices_of(d, acts, i,
                                     cross_compared(d, acts, i, processed_indices)))

remove_cross_source_duplicates(d, acts) == cross_loop(d, acts, 1, {}, <<>>, <<>>)

(* ---------------------------------------------------------------------- *)
(* Deduplicator.process, one step per stage                                *)
(* ---------------------------------------------------------------------- *)
ZeroStats == [exact_duplicates |-> 0, similar_duplicates |-> 0,
              cross_source_duplicates |-> 0, total_duplicates |-> 0]

\* the references to all items of the list d
AllOf(d) == [k \in 1..Len(d) |-> k]

\* the items of the list that are dicts, in order
dict_items(d) == Sorted({i \in 1..Len(d) : IsDict(d[i])})

\* self.scrapers, in the order of the dict
Sources == <<"PARLIAMENT", "LEGISLATION", "GAZETTE", "BEEHIVE">>

\* DataCollectionOrchestrator.__init__
Constructed(dry) ==
    /\ step = "constructed"
    /\ dry_run = dry
    /\ run_stats = [start_time |-> FALSE, end_time |-> FALSE,
                    total_scraped |-> 0, total_processed |-> 0,
                    source_stats |-> <<>>, processing_stats |-> <<>>,
                    errors |-> 0, warnings |-> 0]
    /\ items = 0
    /\ calls = <<>>
    /\ closed = {}
    /\ returned = "pending"

\* a deduplicator, with an orchestrator that does not run
Init ==
    /\ pc = "idle"
    /\ data = <<>>
    /\ actions = <<>>
    /\ before = <<>>
    /\ clusters = <<>>
    /\ result = <<>>
    /\ debug_stats = ZeroStats
    /\ Constructed(TRUE)

\* the lists process is called with
Inputs == Lists(MaxLen)

\* process(data) up to the first stage: an empty list is returned at once,
\* otherwise the dicts are collected and debug_stats is reset
Call ==
    /\ pc = "idle"
    /\ \E L \in Inputs :
          /\ data' = L
          /\ before' = <<>>
          /\ clusters' = <<>>
          /\ IF L = <<>>
             THEN /\ pc' = "returned"
                  /\ result' = <<>>
                  /\ UNCHANGED <<actions, debug_stats>>
             ELSE /\ pc' = "exact"
                  /\ actions' = dict_items(L)
                  /\ debug_stats' = ZeroStats
                  /\ UNCHANGED result
    /\ UNCHANGED ovars

ExactStage ==
    /\ pc = "exact"
    /\ before' = actions
    /\ actions' = remove_exact_duplicates(data, actions)
    /\ debug_stats' = [debug_stats EXCEPT
                          !.exact_duplicates = Len(actions) - Len(actions')]
    /\ pc' = "similar"
    /\ UNCHANGED <<data, clusters, result, ovars>>

SimilarStage ==
    /\ pc = "similar"
    /\ LET r == remove_similar_duplicates(data, actions)
       IN IF r.raised
          THEN pc' = "raised" /\ UNCHANGED <<actions, before, clusters, debug_stats>>
          ELSE /\ before' = actions
               /\ actions' = r.list
               /\ clusters' = r.groups
               /\ debug_stats' = [debug_stats EXCEPT
                                     !.similar_duplicates = Len(actions) - Len(r.list)]
               /\ pc' = "cross"
    /\ UNCHANGED <<data, result, ovars>>

CrossStage ==
    /\ pc = "cross"
    /\ LET r == remove_cross_source_duplicates(data, actions)
       IN IF r.raised
          THEN pc' = "raised" /\ UNCHANGED <<actions, before, clusters, debug_stats>>
          ELSE /\ before' = actions
               /\ actions' = r.list
               /\ clusters' = r.groups
               /\ debug_stats' = [debug_stats EXCEPT
                                     !.cross_source_duplicates = Len(actions) - Len(r.list)]
               /\ pc' = "total"
    /\ UNCHANGED <<data, result, ovars>>

\* Total for a process that empties the list it was given and refills it
\* with the records it keeps (data[:] = actions)
Total_in_place ==
    /\ pc = "total"
    /\ debug_stats' = [debug_stats EXCEPT
                          !.total_duplicates = Len(data) - Len(actions)]
    /\ data' = [k \in 1..Len(actions) |-> data[actions[k]]]
    /\ result' = AllOf(data')
    /\ pc' = "returned"
    /\ UNCHANGED <<actions, before, clusters, ovars>>

Total ==
    /\ pc = "total"
    /\ debug_stats' = [debug_stats EXCEPT
                          !.total_duplicates = Len(data) - Len(actions)]
    /\ result' = actions
    /\ pc' = "returned"
    /\ UNCHANGED <<data, actions, before, clusters, ovars>>

\* the caller is done with the call: its lists are dropped, the instance
\* and its debug_stats stay
Done ==
    /\ pc \in {"returned", "raised"}
    /\ pc' = "idle"
    /\ data' = <<>>
    /\ actions' = <<>>
    /\ before' = <<>>
    /\ clusters' = <<>>
    /\ result' = <<>>
    /\ UNCHANGED <<debug_stats, ovars>>

Next ==
    \/ Call
    \/ ExactStage
    \/ SimilarStage
    \/ CrossStage
    \/ Total
    \/ Done

Spec == Init /\ [][Next]_vars

(* ---------------------------------------------------------------------- *)
(* The orchestrator (backend/src/keep_track_nz/main.py): one run of        *)
(* run_complete_pipeline.  A list of items is its length; what a scraper,   *)
(* a processor, the exporter and Git do is the environment's choice.       *)
(* ---------------------------------------------------------------------- *)
\* what scraper.scrape did: it raised, or it returned `scraped` items
ScrapeOutcome == [success : BOOLEAN, scraped : 0..MaxScraped]
ScrapeOutcomes ==
    [1..Len(Sources) -> {o \in ScrapeOutcome : ~o.success => o.scraped = 0}]

\* what processor.process did: it raised, or it returned `output_count` items
ProcessOutcome(input_count) == [success : BOOLEAN, output_count : 0..input_count]

RECURSIVE total_scraped_of(_, _)
total_scraped_of(o, k) ==
    IF k = 0 THEN 0 ELSE o[k].scraped + total_scraped_of(o, k - 1)

\* a call of a method, and what it returned: the length of a list, or
\* "True", "False", "None", or "raised"
Called(name, value) == [name |-> name, value |-> value]

\* the methods called so far, in order
Names == [k \in 1..Len(calls) |-> calls[k].name]

\* start_time is set and _scrape_all_sources runs every scraper
ScrapeAllSources ==
    /\ step = "constructed"
    /\ \E o \in ScrapeOutcomes :
          /\ run_stats' = [run_stats EXCEPT
                 !.start_time = TRUE,
                 !.source_stats = o,
                 !.errors = @ + Cardinality({k \in 1..Len(Sources) : ~o[k].success}),
                 !.total_scraped = total_scraped_of(o, Len(Sources))]
          /\ items' = total_scraped_of(o, Len(Sources))
          /\ calls' = Append(calls, Called("_scrape_all_sources",
                                           total_scraped_of(o, Len(Sources))))
    /\ step' = "scraped"
    /\ UNCHANGED <<dry_run, closed, returned, dvars>>

\* NoData for a return that leaves the try statement without its finally
NoData_without_finally ==
    /\ step = "scraped"
    /\ items = 0
    /\ returned' = "False"
    /\ step' = "returned"
    /\ UNCHANGED <<dry_run, run_stats, items, calls, closed, dvars>>

\* `if not all_raw_data: return False`
NoData ==
    /\ step = "scraped"
    /\ items = 0
    /\ returned' = "False"
    /\ step' = "finally"
    /\ UNCHANGED <<dry_run, run_stats, items, calls, closed, dvars>>

\* _convert_to_actions: an item that cannot be converted is left out with
\* a warning
ConvertToActions ==
    /\ step = "scraped"
    /\ items > 0
    /\ \E n \in 0..items :
          /\ items' = n
          /\ run_stats' = [run_stats EXCEPT !.warnings = @ + (items - n)]
          /\ calls' = Append(calls, Called("_convert_to_actions", n))
    /\ step' = "converted"
    /\ UNCHANGED <<dry_run, closed, returned, dvars>>

\* self.processors, by class name
Processors == <<"DataValidator", "DeduplicationProcessor", "LabelClassifier">>

\* a list of actions: its length and the call that made it
ListOf(count, made_by) == [count |-> count, made_by |-> made_by]

\* after_processor for a processor whose failure empties `actions`
after_processor_emptied(input, name, o) ==
    IF o.success THEN ListOf(o.output_count, name) ELSE ListOf(0, name)

\* `actions` after one processor: the list it returned, or the list it was
\* given when it raised
after_processor(input, name, o) ==
    IF o.success THEN ListOf(o.output_count, name) ELSE input

\* the call processor.process(...): the list it was given, whether it
\* raised, and what it returned
processor_call(name, input, o) ==
    [name |-> name, input |-> input, raised |-> ~o.success,
     value |-> IF o.success THEN o.output_count ELSE "raised"]

\* self.run_stats['processing_stats'][processor_name]
processing_stats_of(name, input, o) ==
    IF o.success
    THEN [name |-> name, input_count |-> input.count,
          output_count |-> o.output_count, success |-> TRUE]
    ELSE [name |-> name, success |-> FALSE]

\* _process_data: the three processors in turn; a processor that raises is
\* recorded and the list goes on as it was
ProcessData ==
    /\ step = "converted"
    /\ \E v \in ProcessOutcome(items) :
       \E d \in ProcessOutcome(
                 after_processor(ListOf(items, "_convert_to_actions"),
                                 Processors[1], v).count) :
       \E l \in ProcessOutcome(
                 after_processor(
                     after_processor(ListOf(items, "_convert_to_actions"),
                                     Processors[1], v),
                     Processors[2], d).count) :
          LET given1 == ListOf(items, "_convert_to_actions")
              given2 == after_processor(given1, Processors[1], v)
              given3 == after_processor(given2, Processors[2], d)
              final == after_processor(given3, Processors[3], l)
          IN /\ items' = final.count
             /\ run_stats' = [run_stats EXCEPT
                    !.processing_stats =
                        <<processing_stats_of(Processors[1], given1, v),
                          processing_stats_of(Processors[2], given2, d),
                          processing_stats_of(Processors[3], given3, l)>>,
                    !.errors = @ + Cardinality({k \in 1..3 :
                                    ~<<v.success, d.success, l.success>>[k]}),
                    !.total_processed = final.count]
             /\ calls' = calls \o <<processor_call(Processors[1], given1, v),
                                    processor_call(Processors[2], given2, d),
                                    processor_call(Processors[3], given3, l),
                                    Called("_process_data", final.count)>>
    /\ step' = "processed"
    /\ UNCHANGED <<dry_run, closed, returned, dvars>>

\* _export_data, and `if not export_success: return False`
ExportData ==
    /\ step = "processed"
    /\ \E export_success \in {"True", "False"} :
          /\ calls' = Append(calls, Called("_export_data", export_success))
          /\ IF export_success = "True"
             THEN /\ step' = "exported"
                  /\ UNCHANGED <<run_stats, returned>>
             ELSE /\ run_stats' = [run_stats EXCEPT !.errors = @ + 1]
                  /\ returned' = "False"
                  /\ step' = "finally"
    /\ UNCHANGED <<dry_run, items, closed, dvars>>

\* what Git did in _commit_changes: initialize_repo raised, or
\* commit_data_update returned a value
GitOutcomes ==
    { <<Called("git_integration.initialize_repo", "raised")>> }
    \cup { <<Called("git_integration.initialize_repo", "None"),
             Called("git_integration.commit_data_update", success)>> :
           success \in {"True", "False"} }

\* CommitChanges without the test of dry_run
CommitChanges_in_dry_run ==
    /\ step = "exported"
    /\ \E git \in GitOutcomes :
          /\ calls' = calls \o git
                 \o <<Called("_commit_changes",
                             IF git[Len(git)].value = "True" THEN "True" ELSE "False")>>
          /\ run_stats' = [run_stats EXCEPT
                 !.errors = @ + (IF git[Len(git)].value = "raised" THEN 1 ELSE 0)]
    /\ step' = "committed"
    /\ UNCHANGED <<dry_run, items, closed, returned, dvars>>

\* `if not self.dry_run:` _commit_changes; its failure is only a warning
CommitChanges ==
    /\ step = "exported"
    /\ ~dry_run
    /\ \E git \in GitOutcomes :
          /\ calls' = calls \o git
                 \o <<Called("_commit_changes",
                             IF git[Len(git)].value = "True" THEN "True" ELSE "False")>>
          /\ run_stats' = [run_stats EXCEPT
                 !.errors = @ + (IF git[Len(git)].value = "raised" THEN 1 ELSE 0)]
    /\ step' = "committed"
    /\ UNCHANGED <<dry_run, items, closed, returned, dvars>>

\* _finalize_stats and `return True`
FinalizeStats ==
    /\ \/ step = "committed"
       \/ step = "exported" /\ dry_run
    /\ run_stats' = [run_stats EXCEPT !.total_processed = items]
    /\ calls' = Append(calls, Called("_finalize_stats", "None"))
    /\ returned' = "True"
    /\ step' = "finally"
    /\ UNCHANGED <<dry_run, items, closed, dvars>>

\* the finally clause: end_time, and _cleanup_resources closes every
\* scraper, whether or not a close() raises
Finally ==
    /\ step = "finally"
    /\ run_stats' = [run_stats EXCEPT !.end_time = TRUE]
    /\ closed' = {Sources[k] : k \in 1..Len(Sources)}
    /\ step' = "returned"
    /\ UNCHANGED <<dry_run, items, calls, returned, dvars>>

\* an orchestrator constructed with either value of dry_run, and a
\* deduplicator that is not called
PipelineInit ==
    /\ \E dry \in BOOLEAN : Constructed(dry)
    /\ pc = "idle"
    /\ data = <<>>
    /\ actions = <<>>
    /\ before = <<>>
    /\ clusters = <<>>
    /\ result = <<>>
    /\ debug_stats = ZeroStats

PipelineNext ==
    \/ ScrapeAllSources
    \/ NoData
    \/ ConvertToActions
    \/ ProcessData
    \/ ExportData
    \/ CommitChanges
    \/ FinalizeStats
    \/ Finally

PipelineSpec == PipelineInit /\ [][PipelineNext]_vars

(* ---------------------------------------------------------------------- *)
(* The Version Grouper.  Its code is not in the source tree (main.py      *)
(* imports a DeduplicationProcessor that processors/deduplicator.py does   *)
(* not define; the scrapers set the base_id and version fields it reads):  *)
(* it is modelled from section 4.6 of the specification.                   *)
(* ---------------------------------------------------------------------- *)
\* the most records the Version Grouper is given
MaxVersions == 3

\* the records the grouper is given: id, base_id and version as the scrapers
\* set them (id = base_id-v<version>), one version "v"-prefixed, one record
\* without base_id and with a version that is no number, one of another
\* base_id
VersionRecords ==
    { [id |-> "leg-2024-007-v3", base_id |-> "leg-2024-007", version |-> "3"],
      [id |-> "leg-2024-007-v1", base_id |-> "leg-2024-007", version |-> "1"],
      [id |-> "leg-2024-007-v2", base_id |-> "leg-2024-007", version |-> "v2"],
      [id |-> "leg-2024-007-v4", base_id |-> Absent, version |-> "draft"],
      [id |-> "leg-2024-009-v2", base_id |-> "leg-2024-009", version |-> "2"] }

VersionLists == UNION {[1..n -> VersionRecords] : n \in 0..MaxVersions}

\* the characters of the strings the grouper parses
VersionChars ==
    "leg-2024-007" :> <<"l", "e", "g", "-", "2", "0", "2", "4", "-", "0", "0", "7">> @@
    "leg-2024-009" :> <<"l", "e", "g", "-", "2", "0", "2", "4", "-", "0", "0", "9">> @@
    "leg-2024-007-v4" :> <<"l", "e", "g", "-", "2", "0", "2", "4", "-", "0", "0", "7", "-", "v", "4">> @@
    "3" :> <<"3">> @@
    "1" :> <<"1">> @@
    "2" :> <<"2">> @@
    "v2" :> <<"v", "2">> @@
    "draft" :> <<"d", "r", "a", "f", "t">>

\* the id without a -v<N> suffix
strip_version_suffix(s) ==
    IF \E p \in 1..(Len(s) - 2) :
          /\ s[p] = "-" /\ s[p + 1] = "v"
          /\ AllDigits(SubSeq(s, p + 2, Len(s)))
    THEN SubSeq(s, 1, (CHOOSE p \in 1..(Len(s) - 2) :
                          /\ s[p] = "-" /\ s[p + 1] = "v"
                          /\ AllDigits(SubSeq(s, p + 2, Len(s)))) - 1)
    ELSE s

\* the base_id of a record, derived from its id when it has none
base_id_of(action) ==
    IF Truthy(action.base_id) THEN VersionChars[action.base_id]
    ELSE strip_version_suffix(VersionChars[action.id])

\* the digits of a version: a leading "v" is left out
version_digits(s) == IF s # <<>> /\ s[1] = "v" THEN SubSeq(s, 2, Len(s)) ELSE s

\* version_number that parses the version as it is, "v" included
version_number_v_unparsed(version) ==
    IF ~Truthy(version) THEN 1
    ELSE IF VersionChars[version] # <<>> /\ AllDigits(VersionChars[version])
    THEN int_of(VersionChars[version])
    ELSE 1

\* the numeric version: 1 for a version that does not parse
version_number(version) ==
    IF ~Truthy(version) THEN 1
    ELSE IF version_digits(VersionChars[version]) # <<>>
            /\ AllDigits(version_digits(VersionChars[version]))
    THEN int_of(version_digits(VersionChars[version]))
    ELSE 1

\* x put into a list sorted by version descending, after its equals
insert_by_version(d, sorted, x) ==
    LET k == Cardinality({i \in 1..Len(sorted) :
                 version_number(d[sorted[i]].version) >= version_number(d[x].version)})
    IN SubSeq(sorted, 1, k) \o <<x>> \o SubSeq(sorted, k + 1, Len(sorted))

RECURSIVE sort_by_version(_, _)
sort_by_version(d, members) ==
    IF members = <<>> THEN <<>>
    ELSE insert_by_version(d, sort_by_version(d, SubSeq(members, 1, Len(members) - 1)),
                           members[Len(members)])

\* the records with the base_id of the record at i, in input order
group_of(d, i) == Sorted({j \in 1..Len(d) : base_id_of(d[j]) = base_id_of(d[i])})

\* the groups in the order of their first records, each sorted by version
RECURSIVE grouped_from(_, _)
grouped_from(d, i) ==
    IF i > Len(d) THEN <<>>
    ELSE IF \E j \in 1..(i - 1) : base_id_of(d[j]) = base_id_of(d[i])
    THEN grouped_from(d, i + 1)
    ELSE sort_by_version(d, group_of(d, i)) \o grouped_from(d, i + 1)

version_grouper(d) == grouped_from(d, 1)

\* the grouper is called with a list and returns it grouped
GroupVersions ==
    /\ pc = "idle"
    /\ \E L \in VersionLists :
          /\ data' = L
          /\ result' = version_grouper(L)
    /\ pc' = "grouped"
    /\ UNCHANGED <<actions, before, clusters, debug_stats, ovars>>

\* the caller is done with the grouped list
Regroup ==
    /\ pc = "grouped"
    /\ pc' = "idle"
    /\ data' = <<>>
    /\ result' = <<>>
    /\ UNCHANGED <<actions, before, clusters, debug_stats, ovars>>

GrouperNext ==
    \/ GroupVersions
    \/ Regroup

GrouperSpec == Init /\ [][GrouperNext]_vars

(* ---------------------------------------------------------------------- *)
(* The two checks, each in its plain and its debug variant, called with a  *)
(* pair of records, _dates_are_similar called with a pair of dates,        *)
(* _remove_exact_duplicates and the two selectors called with a pair of    *)
(* records, and _remove_cross_source_duplicates called with a list         *)
(* ---------------------------------------------------------------------- *)
\* what a call gives its caller: "raised", or the decision it returns
Decision(raised, value) ==
    IF raised THEN "raised" ELSE IF value THEN "True" ELSE "False"

ComparePair ==
    /\ pc = "idle"
    /\ \E action1, action2 \in CheckRecords :
          /\ data' = <<action1, action2>>
          /\ result' =
                [is_similar |->
                     Decision(are_similar_actions_raises(action1, action2),
                              are_similar_actions(action1, action2)),
                 debug_is_similar |->
                     Decision(are_similar_actions_raises(action1, action2),
                              are_similar_actions_debug(action1, action2).is_similar),
                 is_duplicate |->
                     Decision(are_cross_source_duplicates_raises(action1, action2),
                              are_cross_source_duplicates(action1, action2)),
                 debug_is_duplicate |->
                     Decision(are_cross_source_duplicates_raises(action1, action2),
                              are_cross_source_duplicates_debug(action1, action2).is_duplicate)]
    /\ pc' = "compared"
    /\ UNCHANGED <<actions, before, clusters, debug_stats, ovars>>

CompareDates ==
    /\ pc = "idle"
    /\ \E date1, date2 \in DateValues :
          /\ data' = <<date1, date2>>
          /\ result' = Decision(dates_are_similar_raises(date1, date2),
                                DatesTable[date1, date2])
    /\ pc' = "dated"
    /\ UNCHANGED <<actions, before, clusters, debug_stats, ovars>>

\* _remove_exact_duplicates called with a list of two records
ExactPair ==
    /\ pc = "idle"
    /\ \E url1, url2 \in ExactUrls :
          \E id2 \in {"test-007", "test-020"} :
             /\ data' = <<Rec("test-007", "Water Services Bill", url1, "2024-01-10",
                             "PARLIAMENT", Absent, <<>>, Absent),
                         Rec(id2, "Budget 2024", url2, "2024-05-30",
                             "BEEHIVE", Absent, <<>>, Absent)>>
             /\ result' = remove_exact_duplicates(data', <<1, 2>>)
    /\ pc' = "exact_pair"
    /\ UNCHANGED <<actions, before, clusters, debug_stats, ovars>>

\* the records the two selectors are called with: every source of the
\* tables and one that is in neither, no summary or one of 600 characters,
\* no title, a short one or one of 200 characters, metadata without a value
\* that is not None, last_scraped set or not
ScoredRecords ==
    {Rec("test-022", title, Absent, Absent, source, summary, metadata, last_scraped) :
        title \in {Absent, "Budget 2024", Hundred \o Hundred},
        source \in {"PARLIAMENT", "LEGISLATION", "GAZETTE", "BEEHIVE", "COURTS"},
        summary \in {Absent, SummaryLong},
        metadata \in {<<>>, <<None>>},
        last_scraped \in {Absent, "2024-11-02T00:00:00"}}

\* _choose_best_action or _choose_best_cross_source_action called with a
\* list of two records
ChooseBest ==
    /\ pc = "idle"
    /\ \E action1, action2 \in ScoredRecords :
          /\ data' = <<action1, action2>>
          /\ \/ result' = [selector |-> "_choose_best_action",
                           scores |-> <<score_action(action1, similar_source_priority),
                                        score_action(action2, similar_source_priority)>>,
                           best |-> choose_best_action(data', <<1, 2>>)]
             \/ result' = [selector |-> "_choose_best_cross_source_action",
                           scores |-> <<score_action(action1, cross_source_priority),
                                        score_action(action2, cross_source_priority)>>,
                           best |-> choose_best_cross_source_action(data', <<1, 2>>)]
    /\ pc' = "chosen"
    /\ UNCHANGED <<actions, before, clusters, debug_stats, ovars>>

\* _remove_cross_source_duplicates called on its own with a list of at
\* most MaxLen records
CrossAlone ==
    /\ pc = "idle"
    /\ \E n \in 1..MaxLen :
          \E L \in [1..n -> CheckRecords] :
             /\ data' = L
             /\ result' = remove_cross_source_duplicates(L, [k \in 1..n |-> k])
    /\ pc' = "cross_alone"
    /\ UNCHANGED <<actions, before, clusters, debug_stats, ovars>>

\* the caller is done with what it was given
CheckDone ==
    /\ pc \in {"compared", "dated", "exact_pair", "chosen", "cross_alone"}
    /\ pc' = "idle"
    /\ data' = <<>>
    /\ result' = <<>>
    /\ UNCHANGED <<actions, before, clusters, debug_stats, ovars>>

CheckNext ==
    \/ ComparePair
    \/ CompareDates
    \/ ExactPair
    \/ ChooseBest
    \/ CrossAlone
    \/ CheckDone

CheckSpec == Init /\ [][CheckNext]_vars

(* ---------------------------------------------------------------------- *)
(* Properties                                                              *)
(* ---------------------------------------------------------------------- *)
Range(s) == {s[k] : k \in 1..Len(s)}

\* how often the record x is in the list s
Occurrences(s, x) == Cardinality({k \in 1..Len(s) : s[k] = x})

\* every record of out is a record of inp, none more often than in inp
SubList(out, inp) ==
    \A k \in 1..Len(out) : Occurrences(out, out[k]) <= Occurrences(inp, out[k])

id_of(x) == Get(data[x], "id", "")
normalized_url_of(x) == NormalizeTable[Get(data[x], "url", "")]

\* the records x and y have identical non-empty normalized URLs
SameUrl(x, y) == normalized_url_of(x) # <<>> /\ normalized_url_of(x) = normalized_url_of(y)
\* the records x and y have the same non-empty id
SameId(x, y) == Truthy(id_of(x)) /\ id_of(x) = id_of(y)

StageSum == debug_stats.exact_duplicates + debug_stats.similar_duplicates
                + debug_stats.cross_source_duplicates

\* C1: when process has returned from a call with a non-empty list, the
\* length of the list passed in minus the length of the list returned is
\* the sum of the three per-stage counts of debug_stats.
C1_Conservation ==
    (pc = "returned" /\ data # <<>>) => Len(data) - Len(result) = StageSum

\* C2: the output of each stage, and of process, holds only records of its
\* input, none more often than the input does, so it is no longer than the
\* input.
C2_SubsetShrink ==
    /\ pc \in {"similar", "cross", "total"} =>
           SubList(actions, before) /\ Len(actions) <= Len(before)
    /\ pc = "returned" =>
           SubList(result, AllOf(data)) /\ Len(result) <= Len(data)

\* the similar stage and then the cross-source stage have each dropped a record
C2_Witness ==
    /\ pc = "total"
    /\ debug_stats.similar_duplicates > 0
    /\ Len(actions) < Len(before)

\* C3 as stated: of two records of the exact stage's input with identical
\* non-empty normalized URLs, the earlier one is in the output and the later
\* one is not.
C3_FirstOfSameUrlSurvives ==
    pc = "similar" =>
        \A a, b \in 1..Len(before) :
            (a < b /\ SameUrl(before[a], before[b])) =>
                (before[a] \in Range(actions) /\ before[b] \notin Range(actions))

\* C3 amended: of two such records at most one is in the output, and when
\* no record before the earlier one has its non-empty id or its normalized
\* URL, the earlier one is in the output and the later one is not.
C3_FirstSurvivesUnlessDuplicate ==
    pc = "similar" =>
        \A a, b \in 1..Len(before) :
            (a < b /\ SameUrl(before[a], before[b])) =>
                /\ ~(before[a] \in Range(actions) /\ before[b] \in Range(actions))
                /\ (\A k \in 1..(a - 1) : /\ ~SameId(before[k], before[a])
                                          /\ ~SameUrl(before[k], before[a]))
                       => (before[a] \in Range(actions) /\ before[b] \notin Range(actions))

\* two records whose URLs differ as written and are identical once
\* normalized: the earlier is kept, the later dropped
C3_Witness ==
    /\ pc = "similar"
    /\ \E a, b \in 1..Len(before) :
          /\ a < b
          /\ SameUrl(before[a], before[b])
          /\ data[before[a]].url # data[before[b]].url
          /\ before[a] \in Range(actions)
          /\ before[b] \notin Range(actions)

\* no two records of the list s have the same non-empty id or the same
\* non-empty normalized URL
NoSharedKey(s) ==
    \A a, b \in 1..Len(s) : a # b => ~SameId(s[a], s[b]) /\ ~SameUrl(s[a], s[b])

\* C4: in the output of the exact stage and in the list process returns, no
\* two distinct records have the same non-empty id and no two have the same
\* non-empty normalized URL.
C4_NoSharedKey ==
    /\ pc = "similar" => NoSharedKey(actions)
    /\ pc = "returned" => NoSharedKey(result)

\* process has returned two records or more, having dropped an id duplicate
\* and a URL duplicate in the exact stage
C4_Witness ==
    /\ pc = "returned"
    /\ Len(result) >= 2
    /\ \E a, b \in 1..Len(data) : a # b /\ IsDict(data[a]) /\ IsDict(data[b])
                                        /\ SameId(a, b)
    /\ debug_stats.exact_duplicates > 0

\* C5: the exact stage applied to its own output returns that output.
C5_ExactIdempotent ==
    pc = "similar" => remove_exact_duplicates(data, actions) = actions

\* the first application has dropped a record
C5_Witness ==
    /\ pc = "similar"
    /\ Len(actions) < Len(before)
    /\ actions # <<>>
    /\ remove_exact_duplicates(data, actions) = actions

source_of(x) == Get(data[x], "source_system", None)

\* C6: no group the cross-source stage collapses to one record holds two
\* records with equal source_system.
C6_NoSameSourceInCluster ==
    pc = "total" =>
        \A c \in 1..Len(clusters) :
            \A x, y \in 1..Len(clusters[c]) :
                x # y => source_of(clusters[c][x]) # source_of(clusters[c][y])

\* the similar stage was given the two records of a two-record input
TwoRecordsCompared == pc = "cross" /\ Len(data) = 2 /\ Len(before) = 2

\* fuzz.ratio of the two titles, as the similar stage computes it
title_similarity_of(x, y) ==
    TitleRatioTable[Get(data[x], "title", ""), Get(data[y], "title", "")]

\* both dates parse and are more than 7 days apart
DatesFarApart(x, y) ==
    LET date1 == Get(data[x], "date", "")
        date2 == Get(data[y], "date", "")
    IN /\ Truthy(date1) /\ IsStr(date1) /\ ~strptime_fails(Chars[date1])
       /\ Truthy(date2) /\ IsStr(date2) /\ ~strptime_fails(Chars[date2])
       /\ Abs(ordinal(Chars[date1]) - ordinal(Chars[date2])) > max_days_diff_default

C8_NeverRaises ==
    (\A k \in 1..Len(data) : IsDict(data[k])) => pc # "raised"

\* C9: when process has returned, debug_stats is about that call: the total
\* is the call's input count minus its output count, and the three stage
\* counts are the call's (all zero for an empty list).
C9_StatsOfThisCall ==
    pc = "returned" =>
        /\ debug_stats.total_duplicates = Len(data) - Len(result)
        /\ data = <<>> => StageSum = 0
        /\ data # <<>> =>
               /\ debug_stats.exact_duplicates =
                      Len(dict_items(data))
                          - Len(remove_exact_duplicates(data, dict_items(data)))
               /\ StageSum = Len(dict_items(data)) - Len(result)

\* the input is the bill and the act of the scenario: p the PARLIAMENT
\* record, l the LEGISLATION record, with different ids and URLs
BillAndAct(p, l) ==
    /\ Len(data) = 2 /\ {p, l} = {1, 2}
    /\ IsDict(data[p]) /\ IsDict(data[l])
    /\ source_of(p) = "PARLIAMENT" /\ data[p].title = "Fast-track Approvals Bill"
    /\ source_of(l) = "LEGISLATION" /\ data[l].title = "Fast-Track Approvals Act 2024"
    /\ ~SameId(p, l) /\ ~SameUrl(p, l)

UnmatchedBefore ==
    debug_stats.exact_duplicates = 0 /\ debug_stats.similar_duplicates = 0

\* the number of metadata values of the record x that are not None
metadata_count(x) ==
    Cardinality({i \in 1..Len(data[x].metadata) : data[x].metadata[i] # None})

\* C10 as stated: process returns the LEGISLATION record alone, in either
\* input order.
C10_ActKept ==
    \A p, l \in {1, 2} :
        (pc = "returned" /\ BillAndAct(p, l) /\ UnmatchedBefore) => result = <<l>>

\* C10 amended: process returns one record; it is the LEGISLATION record
\* when the PARLIAMENT record has at most four metadata values that are not
\* None.
C10_ActKeptUnlessOutscored ==
    \A p, l \in {1, 2} :
        (pc = "returned" /\ BillAndAct(p, l) /\ UnmatchedBefore) =>
            /\ Len(result) = 1
            /\ metadata_count(p) <= 4 => result = <<l>>

\* the act comes first, the bill has four metadata values, a summary of
\* more than 500 characters and a last_scraped: the act is returned
C10_Witness ==
    /\ pc = "returned"
    /\ BillAndAct(2, 1)
    /\ UnmatchedBefore
    /\ metadata_count(2) = 4
    /\ result = <<1>>

\* fuzz.ratio of the two cleaned titles, as the cross-source patterns compute it
clean_title_similarity_of(x, y) ==
    CleanRatioTable[Get(data[x], "title", ""), Get(data[y], "title", "")]

\* both dates parse and are more than n days apart
DatesApartMoreThan(x, y, n) ==
    LET date1 == Get(data[x], "date", "")
        date2 == Get(data[y], "date", "")
    IN /\ Truthy(date1) /\ IsStr(date1) /\ ~strptime_fails(Chars[date1])
       /\ Truthy(date2) /\ IsStr(date2) /\ ~strptime_fails(Chars[date2])
       /\ Abs(ordinal(Chars[date1]) - ordinal(Chars[date2])) > n

\* a two-record input: unrelated titles (also once cleaned), different URLs,
\* dates more than 30 days apart, different source_system values
UnrelatedPair ==
    /\ Len(data) = 2 /\ IsDict(data[1]) /\ IsDict(data[2])
    /\ ~title_raises(data[1]) /\ ~title_raises(data[2])
    /\ title_similarity_of(1, 2) < title_similarity_threshold
    /\ clean_title_similarity_of(1, 2) < title_similarity_threshold
    /\ Get(data[1], "url", "") # Get(data[2], "url", "")
    /\ DatesApartMoreThan(1, 2, 30)
    /\ source_of(1) # source_of(2)

\* C11 as stated: process returns both records of such an input.
C11_UnrelatedKept ==
    (pc = "returned" /\ UnrelatedPair) => result = <<1, 2>>

\* C11 amended: process returns both records when, besides, the two do not
\* have the same non-empty id, do not have the same non-empty normalized
\* URL, and the similarity of their URLs is below url_similarity_threshold.
C11_UnrelatedKeptUnlessKeyOrUrl ==
    (/\ pc = "returned" /\ UnrelatedPair
     /\ ~SameId(1, 2) /\ ~SameUrl(1, 2)
     /\ url_similarity_of(Get(data[1], "url", ""), Get(data[2], "url", ""))
            < url_similarity_threshold)
        => result = <<1, 2>>

\* a formal document and an announcement, both with a URL, both returned
C11_Witness ==
    /\ pc = "returned" /\ UnrelatedPair
    /\ ~SameId(1, 2) /\ ~SameUrl(1, 2)
    /\ Truthy(Get(data[1], "url", "")) /\ Truthy(Get(data[2], "url", ""))
    /\ {source_of(1), source_of(2)} = {"PARLIAMENT", "BEEHIVE"}
    /\ result = <<1, 2>>

\* the items of the input are records that share one base_id and have
\* pairwise distinct ids, URLs and versions
VersionsOfOne ==
    /\ Len(data) >= 2
    /\ \A x \in 1..Len(data) : IsDict(data[x]) /\ "base_id" \in DOMAIN data[x]
    /\ \A x, y \in 1..Len(data) :
           /\ data[x].base_id = data[y].base_id
           /\ x # y => /\ Truthy(id_of(x)) /\ id_of(x) # id_of(y)
                       /\ Truthy(Get(data[x], "url", ""))
                       /\ Get(data[x], "url", "") # Get(data[y], "url", "")
                       /\ ~SameUrl(x, y)
                       /\ data[x].version # data[y].version

\* C12: process returns every record of an input made of versions of one
\* base_id (pairwise distinct ids, URLs and versions).
C12_VersionsRetained ==
    (pc = "returned" /\ VersionsOfOne) => result = AllOf(data)

\* a list of references: every member is a record of the list process was
\* called with, and none is there twice
References(list) ==
    /\ Range(list) \subseteq 1..Len(data)
    /\ \A k, l \in 1..Len(list) : list[k] = list[l] => k = l

\* C13: from the call of process to its return the list passed in and the
\* records in it stay as they were passed (no item added, removed or
\* changed), and the list every stage hands on, like the list returned,
\* is made of records of that list, each at most once.
C13_RecordsUntouched ==
    [][pc # "idle" =>
          /\ pc' # "idle" => data' = data
          /\ pc' # "idle" => References(actions)' /\ References(result)']_vars

\* process has returned a list from which the similar stage and the
\* cross-source stage each dropped a record
C13_Witness ==
    /\ pc = "returned"
    /\ debug_stats.similar_duplicates > 0
    /\ debug_stats.cross_source_duplicates > 0
    /\ Len(result) = 1

\* the values the calls of the method `name` returned, in order
ValuesOf(name) ==
    [k \in 1..Cardinality({j \in 1..Len(calls) : calls[j].name = name}) |->
        calls[CHOOSE j \in 1..Len(calls) :
                 /\ calls[j].name = name
                 /\ Cardinality({i \in 1..j : calls[i].name = name}) = k].value]

\* C14: when _scrape_all_sources returned an empty list and
\* run_complete_pipeline has returned, it returned False, it called nothing
\* but _scrape_all_sources (no conversion, processing, export or commit),
\* end_time is set and every scraper was closed.
C14_NoDataReturnsFalse ==
    (step = "returned" /\ ValuesOf("_scrape_all_sources") = <<0>>) =>
        /\ returned = "False"
        /\ Names = <<"_scrape_all_sources">>
        /\ run_stats.start_time /\ run_stats.end_time
        /\ closed = {Sources[k] : k \in 1..Len(Sources)}

\* a run has returned in which one scraper raised and the others returned
\* no item
C14_Witness ==
    /\ step = "returned"
    /\ ValuesOf("_scrape_all_sources") = <<0>>
    /\ run_stats.errors = 1
    /\ returned = "False"

\* C15: _commit_changes (and with it any call of Git) comes only after an
\* _export_data that returned True, and only when dry_run is False; a run
\* whose export failed returns False and called neither; a run whose export
\* succeeded and whose commit failed returns True.
C15_CommitAfterExport ==
    /\ \A k \in 1..Len(calls) :
          calls[k].name \in {"_commit_changes", "git_integration.initialize_repo",
                             "git_integration.commit_data_update"}
             => /\ ~dry_run
                /\ \E j \in 1..(k - 1) : /\ calls[j].name = "_export_data"
                                          /\ calls[j].value = "True"
    /\ (step = "returned" /\ ValuesOf("_export_data") = <<"False">>)
          => /\ returned = "False"
             /\ ValuesOf("_commit_changes") = <<>>
             /\ ValuesOf("git_integration.initialize_repo") = <<>>
             /\ ValuesOf("git_integration.commit_data_update") = <<>>
    /\ (step = "returned" /\ ValuesOf("_export_data") = <<"True">>
           /\ ValuesOf("_commit_changes") = <<"False">>)
          => returned = "True"

\* a run has returned True after a successful export and a commit that Git
\* refused
C15_Witness ==
    /\ step = "returned"
    /\ ~dry_run
    /\ ValuesOf("_export_data") = <<"True">>
    /\ ValuesOf("git_integration.commit_data_update") = <<"False">>
    /\ ValuesOf("_commit_changes") = <<"False">>
    /\ returned = "True"

\* the records that the stage that ran last was given before x
EarlierThan(x) ==
    {before[j] : j \in 1..(CHOOSE k \in 1..Len(before) : before[k] = x) - 1}

\* x has the non-empty id or the non-empty normalized URL of y
SharesKey(x, y) == SameId(x, y) \/ SameUrl(x, y)

\* C17: after the exact stage, a record of its input is missing from its
\* output exactly when an earlier record that is in the output has its
\* non-empty id or its non-empty normalized URL; a key carried only by
\* removed records removes nothing, and a record with empty id and empty
\* normalized URL is in the output.
C17_ExactRule ==
    pc = "similar" =>
        \A x \in Range(before) :
            /\ x \notin Range(actions)
                 <=> \E y \in EarlierThan(x) \cap Range(actions) : SharesKey(x, y)
            /\ (~Truthy(id_of(x)) /\ normalized_url_of(x) = <<>>) => x \in Range(actions)

\* the exact stage removed a record z for its id, and kept a later record
\* that has the URL of z
C17_Witness ==
    /\ pc = "similar"
    /\ \E z \in Range(before) \ Range(actions) :
       \E x \in Range(actions) :
          /\ z \in EarlierThan(x)
          /\ SameUrl(x, z)
          /\ \E y \in EarlierThan(z) \cap Range(actions) : SameId(z, y) /\ ~SameUrl(z, y)

\* where the record x is in the list the stage that ran last was given
Pos(x) == CHOOSE k \in 1..Len(before) : before[k] = x

\* the stage that ran last finds that y matches the anchor a
MatchesAnchor(a, y) ==
    IF pc = "cross"
    THEN are_similar_actions_debug(data[a], data[y]).is_similar
    ELSE /\ Get(data[a], "source_system", None) # Get(data[y], "source_system", None)
         /\ are_cross_source_duplicates_debug(data[a], data[y]).is_duplicate

\* the records of the clusters before the c-th
ClusteredBefore(c) == UNION {Range(clusters[b]) : b \in 1..(c - 1)}

\* C18: when the similar stage or the cross-source stage has returned, its
\* clusters partition its input; the anchor of each cluster is the first
\* record of the input that is in no earlier cluster; the cluster is the
\* anchor followed, in input order, by exactly the later records in no
\* earlier cluster that match the anchor; the output has one record of each
\* cluster, in the order of the clusters.
C18_AnchorClusters ==
    pc \in {"cross", "total"} =>
        /\ \A x \in Range(before) :
              Cardinality({ck \in (1..Len(clusters)) \X (1..Len(before)) :
                              /\ ck[2] <= Len(clusters[ck[1]])
                              /\ clusters[ck[1]][ck[2]] = x}) = 1
        /\ \A c \in 1..Len(clusters) :
              /\ Range(clusters[c]) \subseteq Range(before)
              /\ clusters[c] # <<>>
              /\ \A x \in Range(before) \ ClusteredBefore(c) : Pos(clusters[c][1]) <= Pos(x)
              /\ \A k \in 2..Len(clusters[c]) : Pos(clusters[c][k - 1]) < Pos(clusters[c][k])
              /\ Range(clusters[c]) =
                    {clusters[c][1]} \cup
                    {y \in Range(before) \ ClusteredBefore(c) :
                        /\ Pos(y) > Pos(clusters[c][1])
                        /\ MatchesAnchor(clusters[c][1], y)}
        /\ Len(actions) = Len(clusters)
        /\ \A c \in 1..Len(clusters) : actions[c] \in Range(clusters[c])

\* the similar stage has returned two clusters: a record of the second
\* matches a non-anchor record of the first (taken as an anchor, that
\* record would absorb it) but not the first's anchor
C18_Witness ==
    /\ pc = "cross"
    /\ Len(clusters) = 2
    /\ Len(clusters[1]) = 2
    /\ are_similar_actions_debug(data[clusters[1][2]], data[clusters[2][1]]).is_similar
    /\ ~are_similar_actions_debug(data[clusters[1][1]], data[clusters[2][1]]).is_similar

\* the score of the record x in the stage that ran last
StageScore(x) ==
    score_action(data[x], IF pc = "cross" THEN similar_source_priority
                          ELSE cross_source_priority)

\* C19: when the similar stage or the cross-source stage has returned, the
\* record it kept for a cluster is a member of the cluster, no member
\* scores higher, and every member before it in the cluster scores lower;
\* the score ranks the sources PARLIAMENT > LEGISLATION > BEEHIVE > GAZETTE
\* in the similar stage and LEGISLATION > PARLIAMENT > GAZETTE > BEEHIVE in
\* the cross-source stage.
C19_BestOfCluster ==
    /\ pc \in {"cross", "total"} =>
          \A c \in 1..Len(clusters) :
          \E k \in 1..Len(clusters[c]) :
              /\ actions[c] = clusters[c][k]
              /\ \A l \in 1..Len(clusters[c]) :
                    /\ StageScore(clusters[c][l]) <= StageScore(actions[c])
                    /\ l < k => StageScore(clusters[c][l]) < StageScore(actions[c])
    /\ similar_source_priority["PARLIAMENT"] > similar_source_priority["LEGISLATION"]
    /\ similar_source_priority["LEGISLATION"] > similar_source_priority["BEEHIVE"]
    /\ similar_source_priority["BEEHIVE"] > similar_source_priority["GAZETTE"]
    /\ cross_source_priority["LEGISLATION"] > cross_source_priority["PARLIAMENT"]
    /\ cross_source_priority["PARLIAMENT"] > cross_source_priority["GAZETTE"]
    /\ cross_source_priority["GAZETTE"] > cross_source_priority["BEEHIVE"]

\* a stage has returned the first of two members of a cluster that have
\* the highest score of the cluster
C19_Witness ==
    /\ pc \in {"cross", "total"}
    /\ \E c \in 1..Len(clusters) :
          /\ Len(clusters[c]) >= 2
          /\ actions[c] = clusters[c][1]
          /\ \E l \in 2..Len(clusters[c]) :
                /\ clusters[c][l] # clusters[c][1]
                /\ StageScore(clusters[c][l]) = StageScore(actions[c])

\* the title of x is a str that is not empty once lowered and stripped
HasTitle(x) == IsStr(Get(data[x], "title", "")) /\ ~title_is_empty(data[x])

\* both dates parse and are at most n days apart
DatesWithin(x, y, n) ==
    LET date1 == Get(data[x], "date", "")
        date2 == Get(data[y], "date", "")
    IN /\ Truthy(date1) /\ IsStr(date1) /\ ~strptime_fails(Chars[date1])
       /\ Truthy(date2) /\ IsStr(date2) /\ ~strptime_fails(Chars[date2])
       /\ Abs(ordinal(Chars[date1]) - ordinal(Chars[date2])) <= n

\* the three rules for the records x and y, in the order of the claim
VeryHighTitle(x, y) == title_similarity_of(x, y) >= exact_match_threshold
HighTitleAndDates(x, y) ==
    title_similarity_of(x, y) >= title_similarity_threshold /\ DatesWithin(x, y, 7)
HighUrl(x, y) ==
    url_similarity_of(Get(data[x], "url", ""), Get(data[y], "url", ""))
        >= url_similarity_threshold

\* the similar check reports for x and y what the three rules say
ReportsByRule(x, y) ==
    /\ are_similar_actions_debug(data[x], data[y]).is_similar
          <=> (VeryHighTitle(x, y) \/ HighTitleAndDates(x, y) \/ HighUrl(x, y))
    /\ are_similar_actions_debug(data[x], data[y]).reason =
          IF VeryHighTitle(x, y) THEN "Very high title similarity"
          ELSE IF HighTitleAndDates(x, y) THEN "High title similarity + similar dates"
          ELSE IF HighUrl(x, y) THEN "High URL similarity"
          ELSE "Low similarity"

\* C20: for the two records the similar stage is about to compare, both
\* with a non-empty title, the similar check returns a report; it reports a
\* match exactly when the title similarity is at least exact_match_threshold,
\* or it is at least title_similarity_threshold and the dates are within 7
\* days, or the URL similarity (0 when a URL is missing) is at least
\* url_similarity_threshold; the reason is that of the first of the three
\* that holds.
C20_SimilarRule ==
    (pc = "similar" /\ Len(actions) = 2 /\ HasTitle(actions[1]) /\ HasTitle(actions[2])) =>
        /\ ~are_similar_actions_raises(data[actions[1]], data[actions[2]])
        /\ ReportsByRule(actions[1], actions[2])

\* the version fields of the records of a list, in order
VersionsIn(list) == [k \in 1..Len(list) |-> data[list[k]].version]

\* the number each version string of the input stands for
NumericVersion == [v \in {"3", "1", "v2", "draft", "2"} |->
                      IF v = "3" THEN 3 ELSE IF v \in {"v2", "2"} THEN 2 ELSE 1]

\* the records given to the grouper are versions of leg-2024-007, the one
\* without base_id included
OneBaseId ==
    \A k \in 1..Len(data) : data[k].id # "leg-2024-009-v2"

\* C16: the Version Grouper, given records of one base_id, returns every
\* one of them once, ordered by numeric version descending, a version that
\* does not parse counting as 1; given the versions "3", "1", "v2" it
\* returns them in the order "3", "v2", "1".
C16_VersionOrder ==
    (pc = "grouped" /\ OneBaseId) =>
        /\ Len(result) = Len(data)
        /\ Range(result) = 1..Len(data)
        /\ \A k, l \in 1..Len(result) :
              k < l => NumericVersion[data[result[k]].version]
                          >= NumericVersion[data[result[l]].version]
        /\ VersionsIn(AllOf(data)) = <<"3", "1", "v2">>
              => VersionsIn(result) = <<"3", "v2", "1">>
        /\ VersionsIn(AllOf(data)) = <<"draft", "v2">>
              => VersionsIn(result) = <<"v2", "draft">>

\* the grouper has returned the versions "3", "1", "v2" as "3", "v2", "1"
C16_Witness ==
    /\ pc = "grouped"
    /\ OneBaseId
    /\ VersionsIn(AllOf(data)) = <<"3", "1", "v2">>
    /\ VersionsIn(result) = <<"3", "v2", "1">>

\* the cross-source stage was given two records, both with a non-empty title
TwoTitledRecordsCrossed ==
    /\ pc = "total" /\ Len(before) = 2
    /\ HasTitle(before[1]) /\ HasTitle(before[2])

\* the two records come from PARLIAMENT and LEGISLATION, in either order
BillActSources(x, y) == {source_of(x), source_of(y)} = {"PARLIAMENT", "LEGISLATION"}

\* one record comes from BEEHIVE, the other from PARLIAMENT, LEGISLATION or GAZETTE
AnnouncementFormalSources(x, y) ==
    \/ source_of(x) = "BEEHIVE" /\ source_of(y) \in {"PARLIAMENT", "LEGISLATION", "GAZETTE"}
    \/ source_of(y) = "BEEHIVE" /\ source_of(x) \in {"PARLIAMENT", "LEGISLATION", "GAZETTE"}

\* the three cross-source rules for the records x and y
CrossRule(x, y) ==
    \/ BillActSources(x, y) /\ clean_title_similarity_of(x, y) >= title_similarity_threshold
    \/ title_similarity_of(x, y) >= exact_match_threshold
    \/ /\ AnnouncementFormalSources(x, y)
       /\ clean_title_similarity_of(x, y) >= title_similarity_threshold

\* the cross-source check reports for x and y what the three rules say, and
\* a GAZETTE record matches a PARLIAMENT or LEGISLATION record by the
\* exact_match_threshold rule alone
CrossReportsByRule(x, y) ==
    /\ ~are_cross_source_duplicates_raises(data[x], data[y])
    /\ are_cross_source_duplicates_debug(data[x], data[y]).is_duplicate <=> CrossRule(x, y)
    /\ (/\ "GAZETTE" \in {source_of(x), source_of(y)}
        /\ {source_of(x), source_of(y)} \cap {"PARLIAMENT", "LEGISLATION"} # {})
          => (are_cross_source_duplicates_debug(data[x], data[y]).is_duplicate
                 <=> title_similarity_of(x, y) >= exact_match_threshold)

\* C21: for two records with non-empty titles that the cross-source stage
\* was given, the cross-source check (in either order of the two) reports a
\* duplicate exactly when the sources are PARLIAMENT and LEGISLATION and the
\* cleaned-title similarity is at least title_similarity_threshold, or the
\* raw title similarity is at least exact_match_threshold, or one source is
\* BEEHIVE, the other PARLIAMENT, LEGISLATION or GAZETTE and the
\* cleaned-title similarity is at least title_similarity_threshold; a
\* GAZETTE/PARLIAMENT or GAZETTE/LEGISLATION pair matches by the
\* exact_match_threshold rule only; and the stage merges the two records
\* exactly when their sources differ and the check reports a duplicate.
C21_CrossRule ==
    TwoTitledRecordsCrossed =>
        /\ CrossReportsByRule(before[1], before[2])
        /\ CrossReportsByRule(before[2], before[1])
        /\ Len(actions) = 1 <=>
              /\ source_of(before[1]) # source_of(before[2])
              /\ CrossRule(before[1], before[2])

\* an act given before its bill is merged with it by the cleaned titles
\* alone, and a GAZETTE record is kept beside a PARLIAMENT record whose
\* cleaned title is as close
C21_Witness ==
    /\ TwoTitledRecordsCrossed
    /\ \/ /\ source_of(before[1]) = "LEGISLATION" /\ source_of(before[2]) = "PARLIAMENT"
          /\ title_similarity_of(before[1], before[2]) < exact_match_threshold
          /\ Len(actions) = 1
       \/ /\ {source_of(before[1]), source_of(before[2])} = {"GAZETTE", "PARLIAMENT"}
          /\ clean_title_similarity_of(before[1], before[2]) >= title_similarity_threshold
          /\ Len(actions) = 2

\* a title that is absent, empty or only whitespace
BlankTitle(action) == Get(action, "title", Absent) \in {Absent, "", "   "}

\* C22: when the two checks are called with a pair of records of which one
\* has a title that is absent, empty or only whitespace, neither check
\* raises and both report no match (in the plain and in the debug variant),
\* whatever the URLs of the two are.
C22_BlankTitleNoMatch ==
    (pc = "compared" /\ (BlankTitle(data[1]) \/ BlankTitle(data[2]))) =>
        /\ result.debug_is_similar = "False"
        /\ result.is_similar = "False"
        /\ result.debug_is_duplicate = "False"
        /\ result.is_duplicate = "False"

\* the day each date string that is a date of the calendar stands for,
\* counted from 2024-01-01 as day 1
DayNumber ==
    "2024-01-10" :> 10 @@ "2024-01-12" :> 12 @@ "2024-01-17" :> 17 @@
    "2024-1-17" :> 17 @@ "2024-01-25" :> 25 @@ "2024-03-01" :> 61 @@
    "2024-05-30" :> 151 @@ "2024-11-01" :> 306 @@ "2024-12-05" :> 340 @@
    "2024-12-06" :> 341 @@ "2025-02-01" :> 398

\* a date string, or a date that is missing
DateStringOrMissing(date) == date # NonStr

\* C23: _dates_are_similar, called with two date strings (either may be
\* missing or empty), raises nothing and returns true exactly when both
\* are non-empty, both are dates of the calendar and they are at most 7
\* days apart; 7 days apart gives true, 8 days apart gives false.
C23_DateProximity ==
    (pc = "dated" /\ DateStringOrMissing(data[1]) /\ DateStringOrMissing(data[2])) =>
        /\ result # "raised"
        /\ result = "True" <=>
              /\ data[1] \in DOMAIN DayNumber
              /\ data[2] \in DOMAIN DayNumber
              /\ Abs(DayNumber[data[1]] - DayNumber[data[2]]) <= 7
        /\ data = <<"2024-01-10", "2024-01-17">> => result = "True"
        /\ data = <<"2024-01-25", "2024-01-17">> => result = "False"
        /\ (data[1] \in {None, "", "2024-02-30", "tomorrow"}
               \/ data[2] \in {None, "", "2024-02-30", "tomorrow"}) => result = "False"

\* the call with two dates exactly 7 days apart has returned true
C23_Witness ==
    /\ pc = "dated"
    /\ data = <<"2024-01-10", "2024-01-17">>
    /\ result = "True"

\* one URL written in six ways: as it is, with the other scheme, in upper
\* case, with trailing slashes, with a query string, with a fragment
OneUrlSixWays ==
    {"https://water.example/w1", "http://water.example/w1", "HTTPS://Water.Example/W1",
     "https://water.example/w1//", "https://water.example/w1?page=2",
     "https://water.example/w1#s2"}

\* C24: when _remove_exact_duplicates is called with two records, (1) if
\* their URLs differ only in scheme, letter case, trailing slashes, query
\* string or fragment, the two have the same normalized key and only the
\* first record is kept; (2) a record whose normalized URL is empty is not
\* dropped for its URL, and drops no record for it: with different ids both
\* records are kept as soon as one of the two normalized URLs is empty.
C24_UrlClasses ==
    pc = "exact_pair" =>
        /\ (data[1].url \in OneUrlSixWays /\ data[2].url \in OneUrlSixWays) =>
              /\ normalized_url_of(1) = normalized_url_of(2)
              /\ normalized_url_of(1) # <<>>
              /\ result = <<1>>
        /\ (/\ normalized_url_of(1) = <<>> \/ normalized_url_of(2) = <<>>
            /\ data[1].id # data[2].id) =>
              result = <<1, 2>>

\* the second of two records is dropped for a URL that differs from the
\* first one's in its scheme alone, though its id is another
C24_Witness ==
    /\ pc = "exact_pair"
    /\ data[1].url = "https://water.example/w1"
    /\ data[2].url = "http://water.example/w1"
    /\ data[1].id # data[2].id
    /\ result = <<1>>

\* C25: in every call of process with a non-empty list the three stages run
\* once each, in the order exact, similar, cross-source: the exact stage is
\* given the dict items of the list and is followed by the similar stage,
\* which is given the exact stage's output and is followed by the
\* cross-source stage, which is given the similar stage's output; then
\* process returns the cross-source stage's output.  No stage is entered
\* from anywhere else.
C25_StageOrder ==
    [][/\ (pc = "idle" /\ data' # <<>>) => pc' = "exact"
       /\ pc' = "exact" => pc = "idle"
       /\ pc = "exact" =>
             /\ pc' = "similar"
             /\ before' = dict_items(data)
             /\ actions' = remove_exact_duplicates(data, before')
       /\ pc' = "similar" => pc = "exact"
       /\ pc = "similar" =>
             /\ pc' = "cross"
             /\ before' = actions
             /\ actions' = remove_similar_duplicates(data, before').list
       /\ pc' = "cross" => pc = "similar"
       /\ pc = "cross" =>
             /\ pc' = "total"
             /\ before' = actions
             /\ actions' = remove_cross_source_duplicates(data, before').list
       /\ pc' = "total" => pc = "cross"
       /\ pc = "total" => (pc' = "returned" /\ result' = actions)
       /\ (pc' = "returned" /\ data' # <<>>) => pc = "total"]_vars

\* the calls of processor.process that _process_data made, in order
ProcessorCalls == SelectSeq(calls, LAMBDA c : c.name \in Range(Processors))

\* the scrapers that raised
FailedScrapers == {k \in 1..Len(run_stats.source_stats) : ~run_stats.source_stats[k].success}

\* C26: when _process_data has run, every processor was called once, in
\* the fixed order, whichever of them raised; a processor that raised is
\* recorded with success False and one more error, and the processor after
\* it was given exactly the list the failing one was given.
C26_FailureIsolation ==
    step = "processed" =>
        /\ [k \in 1..Len(ProcessorCalls) |-> ProcessorCalls[k].name] = Processors
        /\ \A k \in 1..Len(ProcessorCalls) :
              ProcessorCalls[k].raised =>
                 /\ run_stats.processing_stats[k] =
                        [name |-> Processors[k], success |-> FALSE]
                 /\ k < Len(ProcessorCalls) =>
                        ProcessorCalls[k + 1].input = ProcessorCalls[k].input
        /\ run_stats.errors =
              Cardinality(FailedScrapers)
                 + Cardinality({k \in 1..Len(ProcessorCalls) :
                                   ProcessorCalls[k].raised})

\* the validator returned fewer actions than it was given, the deduplicator
\* raised, and the classifier was given the validator's list
C26_Witness ==
    /\ step = "processed"
    /\ Len(ProcessorCalls) = 3
    /\ ProcessorCalls[1].input.count > ProcessorCalls[2].input.count
    /\ ProcessorCalls[2].input.count > 0
    /\ ProcessorCalls[2].raised
    /\ ProcessorCalls[3].input = ListOf(ProcessorCalls[2].input.count, "DataValidator")
    /\ ~ProcessorCalls[3].raised

\* what process does with the list d: the three stages in turn
process_outcome(d) ==
    LET similar == remove_similar_duplicates(
                       d, remove_exact_duplicates(d, dict_items(d)))
    IN IF similar.raised THEN Raised
       ELSE remove_cross_source_duplicates(d, similar.list)

\* the list process returned, as a list of records
ResultRecords == [k \in 1..Len(result) |-> data[result[k]]]

\* C27: when process has returned from a call with a list of dicts, a
\* second call with the list it returned returns that list again: every
\* record of it, in the same order.
C27_Idempotent ==
    (pc = "returned" /\ \A k \in 1..Len(data) : IsDict(data[k])) =>
        /\ ~process_outcome(ResultRecords).raised
        /\ process_outcome(ResultRecords).list = [k \in 1..Len(result) |-> k]

\* the rank of the source of the record x in the table the selector uses
RankInUse(x) ==
    LET table == IF result.selector = "_choose_best_action"
                 THEN similar_source_priority ELSE cross_source_priority
    IN IF data[x].source_system \in DOMAIN table
       THEN table[data[x].source_system] ELSE 0

\* C28: when a selector is called with two records whose metadata has no
\* value that is not None, the record whose source ranks higher in the
\* selector's table has the strictly higher score and is the one chosen,
\* whatever the summaries, titles and last_scraped values are: the rest of
\* a score is at most 9 points (900 hundredths), one rank is 10.
C28_PriorityDominates ==
    pc = "chosen" =>
        \A x, y \in {1, 2} :
            RankInUse(x) > RankInUse(y) =>
                /\ result.scores[x] > result.scores[y]
                /\ result.best = x
                /\ result.scores[y] - 1000 * RankInUse(y) <= 900

\* the record chosen has no summary, no title and no last_scraped and ranks
\* one above the other, which has 9 points for its summary, title and
\* last_scraped
C28_Witness ==
    /\ pc = "chosen"
    /\ RankInUse(2) = RankInUse(1) + 1
    /\ result.scores[1] = 1000 * RankInUse(1) + 900
    /\ result.scores[2] = 1000 * RankInUse(2)
    /\ result.best = 2

\* action.get('source_system') is one value for every record of the list
\* (None when the key is absent)
OneSource ==
    \A x, y \in 1..Len(data) :
        Get(data[x], "source_system", None) = Get(data[y], "source_system", None)

\* C29: when _remove_cross_source_duplicates is called with records of one
\* source_system, it raises nothing and returns the records it was given,
\* in the order given, whatever their titles are.
C29_SingleSourceIdentity ==
    (pc = "cross_alone" /\ OneSource) =>
        /\ ~result.raised
        /\ result.list = [k \in 1..Len(data) |-> k]

\* the stage has returned three records of one source, two of them with
\* one title
C29_Witness ==
    /\ pc = "cross_alone"
    /\ OneSource
    /\ Len(data) = 3
    /\ data[1] # data[3]
    /\ IsStr(data[1].title) /\ data[1].title # ""
    /\ data[1].title = data[3].title
    /\ result.list = <<1, 2, 3>>

\* C30: when the two checks are called with a pair of records, each in its
\* plain and in its debug variant, _are_similar_actions gives what
\* _are_similar_actions_debug gives as 'is_similar' and
\* _are_cross_source_duplicates gives what _are_cross_source_duplicates_debug
\* gives as 'is_duplicate' (and one variant raises exactly when the other does).
C30_VariantsAgree ==
    pc = "compared" =>
        /\ result.is_similar = result.debug_is_similar
        /\ result.is_duplicate = result.debug_is_duplicate

\* two records whose titles differ and whose URLs are the same string: both
\* variants of the similar check report a match, both variants of the
\* cross-source check report none
C30_Witness ==
    /\ pc = "compared"
    /\ Get(data[1], "url", "") = Get(data[2], "url", "")
    /\ result.is_similar = "True" /\ result.debug_is_similar = "True"
    /\ result.is_duplicate = "False" /\ result.debug_is_duplicate = "False"
    /\ title_similarity_of(1, 2) < title_similarity_threshold

====
